---- MODULE Spec2Model ----
(***************************************************************************)
(* dstack verifier (src/verifier/src/verification.rs, src/verifier/src/    *)
(* main.rs): event-log replay, OS-image download, measurement cache and    *)
(* the verify pipeline, as a state machine.                                *)
(***************************************************************************)
EXTENDS Integers, Sequences, FiniteSets, TLC

(***************************************************************************)
(* Bounds of the model.                                                    *)
(***************************************************************************)
\* digests are 1..MaxDigest (48-byte SHA-384 values in the program)
MaxDigest == 2
\* the guest may report events with imr in 0..MaxImr; only 0..3 are registers
MaxImr == 4
\* longest event log replayed by the pure replay specification
MaxReplayLen == 3
\* longest guest event log of a verification request
MaxGuestEvents == 2
\* I/O faults (failed syscalls, network errors) injected in one behaviour
MaxFaults == 1

(***************************************************************************)
(* Event log replay: replay_event_logs                                     *)
(***************************************************************************)
Digests == 1..MaxDigest

\* [0u8; 48], the initial value of every RTMR
ZeroRegister == 0

\* Sha384::new().update(rtmr).update(digest).finalize(): a collision-free
\* combination of the running register and the extending digest
Sha384Extend(rtmr, digest) == rtmr * (MaxDigest + 1) + digest

\* a guest event log entry; intact is what event.validate() finds
EventLog == [imr : 0..MaxImr, digest : Digests, intact : BOOLEAN]

\* event.validate(): the digest matches the event's content
validate(event) == event.intact

\* the guard of the extend: if event.imr == idx
ImrSelectedUpTo(event, idx) == event.imr <= idx
ImrSelected(event, idx) == event.imr = idx

\* which entries the inner loop validates: every one, before the imr test
ValidatedOnlyWhenSelected(event, idx) == ImrSelected(event, idx)
Validated(event, idx) == TRUE

\* the inner loop "for (event_idx, event) in eventlog.iter().enumerate()" for
\* one idx, from position k on (event_idx = k - 1), with the accumulated
\* event_indices[idx] and rtmrs[idx]
RECURSIVE ReplayImr(_, _, _, _, _)
ReplayImr(eventlog, idx, k, indices, rtmr) ==
    IF k > Len(eventlog)
    THEN [ok |-> TRUE, indices |-> indices, rtmr |-> rtmr]
    ELSE IF Validated(eventlog[k], idx) /\ ~validate(eventlog[k])
    THEN [ok |-> FALSE, indices |-> indices, rtmr |-> rtmr]
    ELSE IF ImrSelected(eventlog[k], idx)
    THEN ReplayImr(eventlog, idx, k + 1, Append(indices, k - 1),
                   Sha384Extend(rtmr, eventlog[k].digest))
    ELSE ReplayImr(eventlog, idx, k + 1, indices, rtmr)

\* replay_event_logs: the outer loop "for idx in 0..4"; the first failed
\* validation returns the error
replay_event_logs(eventlog) ==
    LET r == [idx \in 0..3 |-> ReplayImr(eventlog, idx, 1, <<>>, ZeroRegister)]
    IN  IF \E idx \in 0..3 : ~r[idx].ok
        THEN [ok |-> FALSE, event_indices |-> <<>>, rtmrs |-> <<>>]
        ELSE [ok |-> TRUE,
              event_indices |-> [idx \in 0..3 |-> r[idx].indices],
              rtmrs |-> [idx \in 0..3 |-> r[idx].rtmr]]

SeqsUpTo(S, n) == UNION {[1..k -> S] : k \in 0..n}

VARIABLES rp_eventlog, rp_result

replayVars == <<rp_eventlog, rp_result>>

NoResult == [ok |-> FALSE, event_indices |-> <<>>, rtmrs |-> <<"none">>]

ReplayInit ==
    /\ \E n \in 0..MaxReplayLen : rp_eventlog \in [1..n -> EventLog]
    /\ rp_result = NoResult

ReplayIdle ==
    /\ rp_eventlog = <<>>
    /\ rp_result = NoResult

\* one call of replay_event_logs on the given log
ReplayCall ==
    /\ rp_result = NoResult
    /\ rp_result' = replay_event_logs(rp_eventlog)
    /\ UNCHANGED rp_eventlog


(***************************************************************************)
(* dstack-mr: Machine::versioned_options                                   *)
(***************************************************************************)
MaxVersionLen == 5

\* Option<T>
None == [some |-> FALSE, value |-> FALSE]
Some(x) == [some |-> TRUE, value |-> x]
unwrap_or(option, default) == IF option.some THEN option.value ELSE default
OptionBool == {None, Some(TRUE), Some(FALSE)}

\* the characters of a qemu_version string: digits, the separator, and a
\* character that is a sign in front of digits and no digit elsewhere
Digit == {"0", "7", "8", "9"}
VersionChars == Digit \cup {".", "+"}
DigitValue(c) == CASE c = "0" -> 0 [] c = "7" -> 7 [] c = "8" -> 8 [] c = "9" -> 9

\* str::split('.'): the pieces between the separators, empty ones included
RECURSIVE split(_, _, _)
split(v, k, piece) ==
    IF k > Len(v) THEN <<piece>>
    ELSE IF v[k] = "." THEN <<piece>> \o split(v, k + 1, <<>>)
    ELSE split(v, k + 1, Append(piece, v[k]))

\* the digits of str::parse::<u32>, most significant first; a part of at most
\* MaxVersionLen digits is below 2^32, so the overflow error cannot occur
RECURSIVE parse_digits(_, _, _)
parse_digits(p, k, acc) ==
    IF k > Len(p) THEN [ok |-> TRUE, value |-> acc]
    ELSE IF p[k] \notin Digit THEN [ok |-> FALSE, value |-> 0]
    ELSE parse_digits(p, k + 1, acc * 10 + DigitValue(p[k]))

\* p.parse::<u32>(): an optional "+" and then at least one digit
parse_u32(p) ==
    LET digits == IF Len(p) > 0 /\ p[1] = "+" THEN Tail(p) ELSE p
    IN  IF Len(digits) = 0 THEN [ok |-> FALSE, value |-> 0]
        ELSE parse_digits(digits, 1, 0)

\* (a0, a1, a2) < (b0, b1, b2) of Rust tuples
TupleLess(a, b) ==
    \/ a[1] < b[1]
    \/ a[1] = b[1] /\ a[2] < b[2]
    \/ a[1] = b[1] /\ a[2] = b[2] /\ a[3] < b[3]

OptionsErr(error) ==
    [ok |-> FALSE, error |-> error, version |-> <<0, 0, 0>>, pic |-> FALSE,
     two_pass_add_pages |-> FALSE]
VersionedOptions(version, pic, two_pass_add_pages) ==
    [ok |-> TRUE, error |-> "", version |-> version, pic |-> pic,
     two_pass_add_pages |-> two_pass_add_pages]
NoOptions == OptionsErr("not called")

\* parse_version_tuple: every part is parsed before the number of parts is
\* looked at
parse_version_tuple(v) ==
    LET parts == split(v, 1, <<>>)
        parsed == [k \in 1..Len(parts) |-> parse_u32(parts[k])]
    IN  IF \E k \in 1..Len(parts) : ~parsed[k].ok
        THEN OptionsErr("Invalid version number")
        ELSE IF Len(parts) # 3
        THEN OptionsErr("Version string must have exactly 3 parts")
        ELSE VersionedOptions(<<parsed[1].value, parsed[2].value, parsed[3].value>>,
                              FALSE, FALSE)

\* the fields of Machine that versioned_options reads
Machine(qemu_version, pic, two_pass_add_pages) ==
    [qemu_version |-> qemu_version, pic |-> pic,
     two_pass_add_pages |-> two_pass_add_pages]
NoMachine == Machine(None, None, None)

versioned_options_explicit_first(self) ==
    LET parsed == IF self.qemu_version.some
                  THEN parse_version_tuple(self.qemu_version.value)
                  ELSE VersionedOptions(<<9, 1, 0>>, FALSE, FALSE)
    IN  IF ~parsed.ok THEN OptionsErr("Failed to parse QEMU version")
        ELSE IF self.pic.some /\ self.two_pass_add_pages.some
        THEN VersionedOptions(parsed.version, self.pic.value,
                              self.two_pass_add_pages.value)
        ELSE IF TupleLess(parsed.version, <<8, 0, 0>>)
        THEN OptionsErr("Unsupported QEMU version")
        ELSE LET default == ~TupleLess(parsed.version, <<8, 0, 0>>)
                            /\ TupleLess(parsed.version, <<9, 0, 0>>)
             IN  VersionedOptions(parsed.version,
                                  unwrap_or(self.pic, default),
                                  unwrap_or(self.two_pass_add_pages, default))
\* Machine::versioned_options
versioned_options(self) ==
    LET parsed == IF self.qemu_version.some
                  THEN parse_version_tuple(self.qemu_version.value)
                  ELSE VersionedOptions(<<9, 1, 0>>, FALSE, FALSE)
    IN  IF ~parsed.ok THEN OptionsErr("Failed to parse QEMU version")
        ELSE IF TupleLess(parsed.version, <<8, 0, 0>>)
        THEN OptionsErr("Unsupported QEMU version")
        ELSE LET default == ~TupleLess(parsed.version, <<8, 0, 0>>)
                            /\ TupleLess(parsed.version, <<9, 0, 0>>)
             IN  VersionedOptions(parsed.version,
                                  unwrap_or(self.pic, default),
                                  unwrap_or(self.two_pass_add_pages, default))

VARIABLES vo_machine, vo_result

optionsVars == <<vo_machine, vo_result>>

\* versioned_options is called on a machine without a qemu_version or with
\* any string of the characters as qemu_version, and any pic and
\* two_pass_add_pages
OptionsInit ==
    /\ \/ \E pic \in OptionBool, two_pass \in OptionBool :
            vo_machine = Machine(None, pic, two_pass)
       \/ \E n \in 0..MaxVersionLen : \E v \in [1..n -> VersionChars] :
            \E pic \in OptionBool, two_pass \in OptionBool :
               vo_machine = Machine(Some(v), pic, two_pass)
    /\ vo_result = NoOptions

OptionsIdle ==
    /\ vo_machine = NoMachine
    /\ vo_result = NoOptions

\* one call of versioned_options
OptionsCall ==
    /\ vo_result = NoOptions
    /\ vo_result' = versioned_options(vo_machine)
    /\ UNCHANGED vo_machine

(***************************************************************************)
(* The state of the functions that are checked on their own calls          *)
(***************************************************************************)
VARIABLES
    mm_pc,        \* "idle", "call" or "returned": the end of verify_os_image_hash
    mm_input,     \* its inputs: debug, the expected logs, the attestation
    mm_result     \* the result and details.rtmr_debug

mismatchVars == <<mm_pc, mm_input, mm_result>>

MismatchIdle ==
    /\ mm_pc = "idle"
    /\ mm_input = <<>>
    /\ mm_result = <<>>

VARIABLES
    mt_pc,        \* "idle", "call" or "returned": compute_mrtd in both orders
    mt_sections,  \* the sections of the Tdvf
    mt_mrtd       \* mt_mrtd[variant]: what compute_mrtd(variant) returned

mrtdVars == <<mt_pc, mt_sections, mt_mrtd>>

MrtdIdle ==
    /\ mt_pc = "idle"
    /\ mt_sections = <<>>
    /\ mt_mrtd = <<>>

VARIABLES
    hb_pc,        \* "idle", "call" or "returned": measure_td_hob
    hb_input,     \* the sections of the Tdvf and memory_size
    hb_ranges,    \* memory_acceptor.ranges after the loop over the sections
    hb_result     \* what measure_td_hob returned

hobVars == <<hb_pc, hb_input, hb_ranges, hb_result>>

HobIdle ==
    /\ hb_pc = "idle"
    /\ hb_input = <<>>
    /\ hb_ranges = <<>>
    /\ hb_result = <<>>

VARIABLES
    r0_pc,        \* "idle", "call" or "returned": the RTMR0 part of measure_with_logs
    r0_input,     \* the sections of the Tdvf and the machine
    r0_result     \* the RTMR0 log and rtmr0, or the error

rtmr0Vars == <<r0_pc, r0_input, r0_result>>

Rtmr0Idle ==
    /\ r0_pc = "idle"
    /\ r0_input = <<>>
    /\ r0_result = <<>>

auxVars == <<mismatchVars, mrtdVars, hobVars, rtmr0Vars>>
AuxIdle == MismatchIdle /\ MrtdIdle /\ HobIdle /\ Rtmr0Idle

\* -------------------------------------------------------------------------
\* dstack-mr: Tdvf::parse
\* -------------------------------------------------------------------------

\* the most sections of a firmware
MaxSections == 2
\* the most iterations of the table scan that are followed
MaxIterations == 4

PAGE_SIZE == 4096
ATTRIBUTE_MR_EXTEND == 1
BYTES_AFTER_TABLE_FOOTER == 32

\* what an integer decoded for the model is capped at: a larger one is read
\* as this value
LeCap == 16777216

\* the bytes s[a..b] of a slice, a and b counted from 0
Slice(s, a, b) == SubSeq(s, a + 1, b)
CanSlice(s, a, b) == 0 <= a /\ a <= b /\ b <= Len(s)

RECURSIVE Reversed(_)
Reversed(s) == IF s = <<>> THEN <<>> ELSE Reversed(Tail(s)) \o <<Head(s)>>

\* the little-endian bytes of n in w bytes
RECURSIVE Le(_, _)
Le(n, w) == IF w = 0 THEN <<>> ELSE <<n % 256>> \o Le(n \div 256, w - 1)

\* the integer of little-endian bytes
RECURSIVE FromLe(_)
FromLe(b) ==
    IF b = <<>> THEN 0
    ELSE LET high == FromLe(Tail(b))
         IN  IF high >= LeCap \div 256 THEN LeCap ELSE Head(b) + 256 * high

\* an unsigned integer kept as its little-endian bytes: is it a multiple of
\* PAGE_SIZE, and is a below b (a and b of the same width)
IsPageMultiple(b) == b[1] = 0 /\ b[2] % 16 = 0
RECURSIVE LeLess(_, _)
LeLess(a, b) ==
    IF a = <<>> THEN FALSE
    ELSE LET n == Len(a)
         IN  IF a[n] # b[n] THEN a[n] < b[n]
             ELSE LeLess(SubSeq(a, 1, n - 1), SubSeq(b, 1, n - 1))
Widen(b, w) == b \o [i \in 1..(w - Len(b)) |-> 0]
BitSet(b, bit) == (b[1] \div bit) % 2 = 1

\* a GUID string as the bytes of its five atoms
TDX_METADATA_OFFSET_GUID ==
    << <<228, 122, 101, 53>>, <<152, 74>>, <<71, 152>>, <<134, 94>>,
       <<70, 133, 167, 191, 142, 194>> >>
TABLE_FOOTER_GUID ==
    << <<150, 181, 130, 222>>, <<31, 178>>, <<69, 247>>, <<186, 234>>,
       <<163, 102, 197, 90, 8, 45>> >>

encode_guid(atoms) ==
    Reversed(atoms[1]) \o Reversed(atoms[2]) \o Reversed(atoms[3])
        \o atoms[4] \o atoms[5]

\* the outcome of a parse
TdvfOk(sections) == [kind |-> "ok", error |-> "", sections |-> sections]
TdvfErr(error) == [kind |-> "err", error |-> error, sections |-> <<>>]
TdvfPanic(error) == [kind |-> "panic", error |-> error, sections |-> <<>>]
NoTdvf == [kind |-> "none", error |-> "", sections |-> <<>>]

\* read_le::<u16>(data, offset)
read_le(data, offset) ==
    IF CanSlice(data, offset, offset + 2)
    THEN [ok |-> TRUE, value |-> FromLe(Slice(data, offset, offset + 2))]
    ELSE [ok |-> FALSE, value |-> 0]

\* TdvfDescriptor::decode and TdvfSection::decode: the fields in the order
\* of the struct, each in its width, little-endian
DescriptorSize == 16
SectionSize == 32

TdvfDescriptor_decode(b) ==
    IF Len(b) < DescriptorSize THEN [ok |-> FALSE]
    ELSE [ok |-> TRUE,
          signature |-> Slice(b, 0, 4),
          length |-> Slice(b, 4, 8),
          version |-> Slice(b, 8, 12),
          num_sections |-> Slice(b, 12, 16)]

TdvfSection_decode(b) ==
    IF Len(b) < SectionSize THEN [ok |-> FALSE]
    ELSE [ok |-> TRUE,
          data_offset |-> Slice(b, 0, 4),
          raw_data_size |-> Slice(b, 4, 8),
          memory_address |-> Slice(b, 8, 16),
          memory_data_size |-> Slice(b, 16, 24),
          sec_type |-> Slice(b, 24, 28),
          attributes |-> Slice(b, 28, 32)]

\* the checks of one decoded section: the error, or "" when it passes
section_error_unaligned_size(s) ==
    IF ~IsPageMultiple(s.memory_address)
    THEN "Section memory address not aligned"
    ELSE IF LeLess(s.memory_data_size, Widen(s.raw_data_size, 8))
    THEN "Section memory data size less than raw"
    ELSE ""

section_error(s) ==
    IF ~IsPageMultiple(s.memory_address)
    THEN "Section memory address not aligned"
    ELSE IF LeLess(s.memory_data_size, Widen(s.raw_data_size, 8))
    THEN "Section memory data size less than raw"
    ELSE IF ~IsPageMultiple(s.memory_data_size)
    THEN "Section memory data size not aligned"
    ELSE IF /\ BitSet(s.attributes, ATTRIBUTE_MR_EXTEND)
            /\ LeLess(s.memory_data_size, Widen(s.raw_data_size, 8))
    THEN "Section raw data size less than memory"
    ELSE ""

\* the loop over the sections, from section i with the sections pushed so far
RECURSIVE decode_sections(_, _, _, _, _)
decode_sections(fw, tdvf_meta_offset, num_sections, i, sections) ==
    IF i >= num_sections THEN TdvfOk(sections)
    ELSE LET sec_offset == tdvf_meta_offset + DescriptorSize + SectionSize * i
         IN  IF ~CanSlice(fw, sec_offset, Len(fw))
             THEN TdvfPanic("range start index out of range")
             ELSE LET s == TdvfSection_decode(Slice(fw, sec_offset, Len(fw)))
                  IN  IF ~s.ok THEN TdvfErr("failed to decode TDVF section")
                      ELSE IF section_error(s) # ""
                      THEN TdvfErr(section_error(s))
                      ELSE decode_sections(fw, tdvf_meta_offset, num_sections,
                                           i + 1, Append(sections, s))

\* the start of parse, up to the table: the error, or the table
parse_footer(fw) ==
    IF Len(fw) < BYTES_AFTER_TABLE_FOOTER
    THEN [result |-> TdvfErr("TDVF firmware too small")]
    ELSE LET offset == Len(fw) - BYTES_AFTER_TABLE_FOOTER
         IN  IF offset < 16
             THEN [result |-> TdvfErr("TDVF firmware offset too small for GUID")]
             ELSE IF ~CanSlice(fw, offset - 16, offset)
             THEN [result |-> TdvfPanic("range out of range")]
             ELSE IF Slice(fw, offset - 16, offset) # encode_guid(TABLE_FOOTER_GUID)
             THEN [result |-> TdvfErr("Invalid footer GUID")]
             ELSE IF offset < 18
             THEN [result |->
                     TdvfErr("TDVF firmware offset too small for tables length")]
             ELSE IF ~CanSlice(fw, offset - 18, offset - 16)
             THEN [result |-> TdvfPanic("range out of range")]
             ELSE LET tables_len == FromLe(Slice(fw, offset - 18, offset - 16))
                  IN  IF tables_len = 0 \/ tables_len > offset - 18
                      THEN [result |-> TdvfErr("Invalid tables length")]
                      ELSE LET table_start == offset - 18 - tables_len
                           IN  IF ~CanSlice(fw, table_start, offset - 18)
                               THEN [result |-> TdvfPanic("range out of range")]
                               ELSE [result |-> NoTdvf,
                                     tables |->
                                        Slice(fw, table_start, offset - 18)]

\* one iteration of the scan of the table, from the end of an entry at offset
parse_entry(tables, offset) ==
    IF offset < 18 THEN [exit |-> "break", data |-> None]
    ELSE IF ~CanSlice(tables, offset - 16, offset)
    THEN [exit |-> "panic", error |-> "range out of range"]
    ELSE LET guid == Slice(tables, offset - 16, offset)
             entry_len == read_le(tables, offset - 18)
         IN  IF ~entry_len.ok
             THEN [exit |-> "bail", error |-> "failed to read entry length"]
             ELSE IF entry_len.value > offset - 18
             THEN [exit |-> "bail", error |-> "Invalid entry length"]
             ELSE IF guid = encode_guid(TDX_METADATA_OFFSET_GUID)
             THEN LET entry_start == offset - 18 - entry_len.value
                  IN  IF ~CanSlice(tables, entry_start, offset - 18)
                      THEN [exit |-> "panic", error |-> "range out of range"]
                      ELSE [exit |-> "break",
                            data |->
                               Some(Slice(tables, entry_start, offset - 18))]
             ELSE [exit |-> "continue", offset |-> offset - entry_len.value]

\* the rest of parse, with the data of the metadata entry if there is one
parse_metadata(fw, data) ==
    IF ~data.some THEN TdvfErr("Missing TDVF metadata")
    ELSE IF Len(data.value) < 4 THEN TdvfErr("TDVF metadata data too small")
    ELSE
    LET tdvf_meta_offset_raw ==
            FromLe(Slice(data.value, Len(data.value) - 4, Len(data.value)))
    IN  IF tdvf_meta_offset_raw > Len(fw)
        THEN TdvfErr("TDVF metadata offset exceeds firmware size")
        ELSE
        LET tdvf_meta_offset == Len(fw) - tdvf_meta_offset_raw
            descriptor ==
                TdvfDescriptor_decode(Slice(fw, tdvf_meta_offset, Len(fw)))
        IN  IF ~CanSlice(fw, tdvf_meta_offset, Len(fw))
            THEN TdvfPanic("range start index out of range")
            ELSE IF ~descriptor.ok
            THEN TdvfErr("failed to decode TDVF descriptor")
            ELSE IF descriptor.signature # <<84, 68, 86, 70>>
            THEN TdvfErr("Invalid TDVF descriptor")
            ELSE IF descriptor.version # Le(1, 4)
            THEN TdvfErr("Unsupported TDVF version")
            ELSE decode_sections(fw, tdvf_meta_offset,
                                 FromLe(descriptor.num_sections), 0, <<>>)

\* the firmware images parse is called on.  An image is laid out as the
\* parser reads it: the descriptor and its sections, the table of entries
\* (data, length, GUID), the footer (length of the table, GUID) and the
\* bytes after the footer; a field that is Exact has the value of the layout
Exact == 0 - 1
OTHER_GUID == [i \in 1..16 |-> i]

TdvfSection(raw_data_size, memory_address, memory_data_size, attributes) ==
    [data_offset |-> 0, raw_data_size |-> raw_data_size,
     memory_address |-> memory_address,
     memory_data_size |-> memory_data_size,
     sec_type |-> 0, attributes |-> attributes]

SectionKinds ==
    { TdvfSection(4096, 0, 4096, 1), TdvfSection(0, 8192, 4096, 0),
      TdvfSection(0, 2048, 4096, 0), TdvfSection(0, 0, 2048, 0),
      TdvfSection(8192, 0, 4096, 1), TdvfSection(4096, 0, 8192, 1) }

TdvfSection_encode(s) ==
    Le(s.data_offset, 4) \o Le(s.raw_data_size, 4) \o Le(s.memory_address, 8)
        \o Le(s.memory_data_size, 8) \o Le(s.sec_type, 4)
        \o Le(s.attributes, 4)

TdvfDescriptor_encode(signature, version, num_sections) ==
    signature \o Le(0, 4) \o Le(version, 4) \o Le(num_sections, 4)

RECURSIVE Concat(_)
Concat(ss) == IF ss = <<>> THEN <<>> ELSE Head(ss) \o Concat(Tail(ss))

Entry(guid, len) == [guid |-> guid, len |-> len]
EntrySize == 22

Firmware(shape) ==
    LET table_size == EntrySize * Len(shape.entries)
        raw_exact == DescriptorSize + SectionSize * Len(shape.sections)
                        + table_size + 18 + BYTES_AFTER_TABLE_FOOTER
        raw == IF shape.meta_raw = Exact THEN raw_exact ELSE shape.meta_raw
        EntryBytes(e) ==
            (IF e.guid = "meta" THEN Le(raw, 4) ELSE <<1, 2, 3, 4>>)
            \o Le(IF e.len = Exact THEN EntrySize ELSE e.len, 2)
            \o (IF e.guid = "meta" THEN encode_guid(TDX_METADATA_OFFSET_GUID)
                ELSE OTHER_GUID)
        tail == IF shape.tail = "descriptor first"
                THEN TdvfDescriptor_encode(<<84, 68, 86, 70>>, 1, 1)
                        \o [i \in 1..16 |-> 0]
                ELSE IF shape.tail = "descriptor last"
                THEN [i \in 1..16 |-> 0]
                        \o TdvfDescriptor_encode(<<84, 68, 86, 70>>, 1,
                                                 shape.num_sections)
                ELSE [i \in 1..BYTES_AFTER_TABLE_FOOTER |-> 0]
        whole ==
            [i \in 1..shape.data |-> 7]
            \o [i \in 1..18 |-> 9]
            \o TdvfDescriptor_encode(shape.signature, shape.version,
                                     shape.num_sections)
            \o Concat([i \in 1..Len(shape.sections) |->
                          TdvfSection_encode(shape.sections[i])])
            \o Concat([i \in 1..Len(shape.entries) |->
                          EntryBytes(shape.entries[i])])
            \o Le(IF shape.tables_len = Exact THEN table_size + 18
                  ELSE shape.tables_len, 2)
            \o (IF shape.footer = "footer" THEN encode_guid(TABLE_FOOTER_GUID)
                ELSE OTHER_GUID)
            \o tail
    IN  IF shape.keep = Exact THEN whole
        ELSE SubSeq(whole, Len(whole) - shape.keep + 1, Len(whole))

\* a well-formed image of the sections and the entries
WellFormed(sections, entries) ==
    [sections |-> sections, signature |-> <<84, 68, 86, 70>>, version |-> 1,
     num_sections |-> Len(sections), entries |-> entries,
     meta_raw |-> Exact, tables_len |-> Exact, footer |-> "footer",
     tail |-> "zeros", keep |-> Exact, data |-> 0]

\* the images that differ from a well-formed one in one place
Malformations(base) ==
    { [base EXCEPT !.signature = <<88, 68, 86, 70>>],
      [base EXCEPT !.version = 2],
      [base EXCEPT !.num_sections = @ + 1],
      [base EXCEPT !.footer = "other"],
      [base EXCEPT !.meta_raw = 16, !.tail = "descriptor last"],
      [base EXCEPT !.meta_raw = 32, !.tail = "descriptor first"] }
    \cup { [base EXCEPT !.tables_len = n] : n \in {0, 10, 60000} }
    \cup { [base EXCEPT !.meta_raw = n] : n \in {0, 8, 70000} }
    \cup { [base EXCEPT !.keep = n] : n \in {31, 40, 48, 49, 50} }
    \cup { [base EXCEPT !.entries = es] :
             es \in { <<Entry("other", Exact)>>,
                      <<Entry("meta", Exact), Entry("other", 0)>>,
                      <<Entry("meta", Exact), Entry("other", 60000)>>,
                      <<Entry("meta", 2)>> } }

EntryLists ==
    { <<Entry("meta", Exact)>>,
      <<Entry("other", Exact), Entry("meta", Exact)>>,
      <<Entry("meta", Exact), Entry("other", Exact)>> }

NoShape == WellFormed(<<>>, <<>>)

\* -------------------------------------------------------------------------
\* dstack-mr: Tdvf::compute_mrtd
\* -------------------------------------------------------------------------
MR_EXTEND_GRANULARITY == 256
ATTRIBUTE_PAGE_AUG == 2

\* the fields of a returned section as numbers
SectionNumbers(s) ==
    [data_offset |-> FromLe(s.data_offset),
     raw_data_size |-> FromLe(s.raw_data_size),
     memory_address |-> FromLe(s.memory_address),
     memory_data_size |-> FromLe(s.memory_data_size),
     sec_type |-> FromLe(s.sec_type),
     attributes |-> FromLe(s.attributes)]

\* s.attributes & bit != 0, for a bit 1, 2, 4, ...
HasAttribute(attributes, bit) == (attributes \div bit) % 2 = 1

\* one h.update: of a 128-byte buffer with the name and the gpa ("at"), or of
\* the MR_EXTEND_GRANULARITY bytes of the firmware from chunk_offset ("at");
\* "panic" is the slice of these bytes that ends past the firmware
Update(kind, at) == [kind |-> kind, at |-> at]

\* the closure mem_page_add that adds pages marked PAGE_AUG as well
mem_page_add_always(s, page) ==
    <<Update("MEM.PAGE.ADD", s.memory_address + page * PAGE_SIZE)>>
\* the closure mem_page_add
mem_page_add(s, page) ==
    IF ~HasAttribute(s.attributes, ATTRIBUTE_PAGE_AUG)
    THEN <<Update("MEM.PAGE.ADD", s.memory_address + page * PAGE_SIZE)>>
    ELSE <<>>

\* iteration i of the loop of the closure mr_extend
mr_extend_chunk(fw_len, s, page, i) ==
    LET gpa == s.memory_address + page * PAGE_SIZE + i * MR_EXTEND_GRANULARITY
        chunk_offset == s.data_offset + page * PAGE_SIZE
                           + i * MR_EXTEND_GRANULARITY
    IN  <<Update("MR.EXTEND", gpa),
          IF chunk_offset + MR_EXTEND_GRANULARITY > fw_len
          THEN Update("panic", chunk_offset)
          ELSE Update("fw", chunk_offset)>>

\* the closure mr_extend
mr_extend(fw_len, s, page) ==
    IF HasAttribute(s.attributes, ATTRIBUTE_MR_EXTEND)
    THEN Concat([k \in 1..(PAGE_SIZE \div MR_EXTEND_GRANULARITY) |->
                    mr_extend_chunk(fw_len, s, page, k - 1)])
    ELSE <<>>

\* the body of "for s in &self.sections"
section_updates(fw_len, s, variant) ==
    LET num_pages == s.memory_data_size \div PAGE_SIZE
    IN  IF variant = "TwoPass"
        THEN Concat([p \in 1..num_pages |-> mem_page_add(s, p - 1)])
             \o Concat([p \in 1..num_pages |-> mr_extend(fw_len, s, p - 1)])
        ELSE Concat([p \in 1..num_pages |->
                        mem_page_add(s, p - 1) \o mr_extend(fw_len, s, p - 1)])

\* compute_mrtd on a firmware of fw_len bytes: the updates of the hasher in
\* order, up to the end or to the slice that panics; the digest stands for
\* the sequence of updates it is computed from
compute_mrtd(fw_len, sections, variant) ==
    LET all == Concat([k \in 1..Len(sections) |->
                          section_updates(fw_len, sections[k], variant)])
        panics == {k \in 1..Len(all) : all[k].kind = "panic"}
    IN  IF panics = {} THEN [kind |-> "ok", updates |-> all]
        ELSE [kind |-> "panic",
              updates |-> SubSeq(all, 1,
                                 CHOOSE k \in panics : \A l \in panics : k <= l)]

NoMrtd == [kind |-> "none", updates |-> <<>>]

VARIABLES tp_shape, tp_fw, tp_pc, tp_tables, tp_offset, tp_data, tp_iter,
          tp_result, tp_mrtd

tdvfVars ==
    <<tp_shape, tp_fw, tp_pc, tp_tables, tp_offset, tp_data, tp_iter,
      tp_result, tp_mrtd>>

\* parse is called on a well-formed image of at most MaxSections sections
\* without the data of the sections or with one page of it in front, or on
\* one that differs from the image without data in one place
TdvfInit ==
    /\ \E n \in 0..MaxSections : \E sections \in [1..n -> SectionKinds] :
         \E entries \in EntryLists :
            LET base == WellFormed(sections, entries)
            IN  tp_shape \in {base, [base EXCEPT !.data = PAGE_SIZE]}
                                \cup Malformations(base)
    /\ tp_fw = Firmware(tp_shape)
    /\ tp_pc = "footer"
    /\ tp_tables = <<>>
    /\ tp_offset = 0
    /\ tp_data = None
    /\ tp_iter = 0
    /\ tp_result = NoTdvf
    /\ tp_mrtd = NoMrtd

TdvfIdle ==
    /\ tp_shape = NoShape
    /\ tp_fw = <<>>
    /\ tp_pc = "idle"
    /\ tp_tables = <<>>
    /\ tp_offset = 0
    /\ tp_data = None
    /\ tp_iter = 0
    /\ tp_result = NoTdvf
    /\ tp_mrtd = NoMrtd

\* parse up to the table
TdvfParseFooter ==
    /\ tp_pc = "footer"
    /\ LET r == parse_footer(tp_fw)
       IN  IF r.result.kind # "none"
           THEN /\ tp_result' = r.result
                /\ tp_pc' = "returned"
                /\ UNCHANGED <<tp_tables, tp_offset>>
           ELSE /\ tp_tables' = r.tables
                /\ tp_offset' = Len(r.tables)
                /\ tp_pc' = "scan"
                /\ UNCHANGED tp_result
    /\ UNCHANGED <<tp_shape, tp_fw, tp_data, tp_iter, tp_mrtd>>
    /\ UNCHANGED <<replayVars, optionsVars, auxVars>>

\* one iteration of the scan of the table
TdvfParseEntry ==
    /\ tp_pc = "scan"
    /\ tp_iter < MaxIterations
    /\ tp_iter' = tp_iter + 1
    /\ LET e == parse_entry(tp_tables, tp_offset)
       IN  CASE e.exit = "break" ->
                  /\ tp_data' = e.data
                  /\ tp_pc' = "metadata"
                  /\ UNCHANGED <<tp_offset, tp_result>>
             [] e.exit = "bail" ->
                  /\ tp_result' = TdvfErr(e.error)
                  /\ tp_pc' = "returned"
                  /\ UNCHANGED <<tp_offset, tp_data>>
             [] e.exit = "panic" ->
                  /\ tp_result' = TdvfPanic(e.error)
                  /\ tp_pc' = "returned"
                  /\ UNCHANGED <<tp_offset, tp_data>>
             [] e.exit = "continue" ->
                  /\ tp_offset' = e.offset
                  /\ UNCHANGED <<tp_pc, tp_data, tp_result>>
    /\ UNCHANGED <<tp_shape, tp_fw, tp_tables, tp_mrtd>>
    /\ UNCHANGED <<replayVars, optionsVars, auxVars>>

\* parse from the end of the scan: the descriptor and the sections
TdvfParseMetadata ==
    /\ tp_pc = "metadata"
    /\ tp_result' = parse_metadata(tp_fw, tp_data)
    /\ tp_pc' = "returned"
    /\ UNCHANGED <<tp_shape, tp_fw, tp_tables, tp_offset, tp_data, tp_iter, tp_mrtd>>
    /\ UNCHANGED <<replayVars, optionsVars, auxVars>>

\* the firmwares compute_mrtd is called on by itself: at most MaxMrtdSections
\* sections of at most MaxPages pages
MaxMrtdSections == 2
MaxPages == 2

PageAddOrder == {"TwoPass", "SinglePass"}

\* the k-th section of such a firmware: its pages lie below those of the
\* sections before it, its data behind theirs
MrtdSection(k, pages, attributes) ==
    [data_offset |-> (k - 1) * MaxPages * PAGE_SIZE,
     raw_data_size |-> pages * PAGE_SIZE,
     memory_address |-> (MaxMrtdSections - k) * MaxPages * PAGE_SIZE,
     memory_data_size |-> pages * PAGE_SIZE,
     sec_type |-> 0, attributes |-> attributes]

\* the firmware holds the data of MaxMrtdSections sections
MrtdFwLen == MaxMrtdSections * MaxPages * PAGE_SIZE

MrtdInit ==
    /\ mt_pc = "call"
    /\ \E n \in 0..MaxMrtdSections :
          \E pages \in [1..n -> 0..MaxPages],
             attributes \in [1..n -> 0..(ATTRIBUTE_MR_EXTEND + ATTRIBUTE_PAGE_AUG)] :
             mt_sections = [k \in 1..n |-> MrtdSection(k, pages[k], attributes[k])]
    /\ mt_mrtd = [variant \in PageAddOrder |-> NoMrtd]

\* compute_mrtd(variant), once for each variant
MrtdCall ==
    /\ mt_pc = "call"
    /\ \E variant \in PageAddOrder :
          /\ mt_mrtd[variant] = NoMrtd
          /\ mt_mrtd' = [mt_mrtd EXCEPT
                            ![variant] = compute_mrtd(MrtdFwLen, mt_sections, variant)]
    /\ mt_pc' = IF \A variant \in PageAddOrder : mt_mrtd'[variant] # NoMrtd
                THEN "returned" ELSE "call"
    /\ UNCHANGED mt_sections

\* compute_mrtd on the firmware parse returned, in either order of the pages
TdvfComputeMrtd ==
    /\ tp_pc = "returned"
    /\ tp_result.kind = "ok"
    /\ \E variant \in {"TwoPass", "SinglePass"} :
          tp_mrtd' = compute_mrtd(Len(tp_fw),
                                  [k \in 1..Len(tp_result.sections) |->
                                      SectionNumbers(tp_result.sections[k])],
                                  variant)
    /\ tp_pc' = "measured"
    /\ UNCHANGED <<tp_shape, tp_fw, tp_tables, tp_offset, tp_data, tp_iter, tp_result>>
    /\ UNCHANGED <<replayVars, optionsVars, auxVars>>

\* -------------------------------------------------------------------------
\* dstack-mr: MemoryAcceptor and Tdvf::measure_td_hob
\* -------------------------------------------------------------------------
TDVF_SECTION_TD_HOB == 2
TDVF_SECTION_TEMP_MEM == 3

\* u64 values are kept as their eight little-endian bytes; + and - wrap
RECURSIVE AddBytes(_, _, _)
AddBytes(a, b, carry) ==
    IF a = <<>> THEN <<>>
    ELSE LET t == Head(a) + Head(b) + carry
         IN  <<t % 256>> \o AddBytes(Tail(a), Tail(b), t \div 256)
U64Add(a, b) == AddBytes(a, b, 0)

RECURSIVE SubBytes(_, _, _)
SubBytes(a, b, borrow) ==
    IF a = <<>> THEN <<>>
    ELSE LET t == 256 + Head(a) - Head(b) - borrow
         IN  <<t % 256>> \o SubBytes(Tail(a), Tail(b), 1 - t \div 256)
U64Sub(a, b) == SubBytes(a, b, 0)

U64(n) == Le(n, 8)
\* 0x80000000, 0xB0000000 and 0x100000000
Below4G == <<0, 0, 0, 128, 0, 0, 0, 0>>
SplitThreshold == <<0, 0, 0, 176, 0, 0, 0, 0>>
Above4G == <<0, 0, 0, 0, 1, 0, 0, 0>>
\* 0x809000
DefaultTdHobBase == <<0, 144, 128, 0, 0, 0, 0, 0>>

Range(accepted, start, end) == [accepted |-> accepted, start |-> start, end |-> end]

\* MemoryAcceptor::new
MemoryAcceptor_new(start, size) == <<Range(FALSE, start, U64Add(start, size))>>

\* sort_by_key(start), a stable sort: ranges with equal starts keep their order
RECURSIVE sort_by_start(_)
sort_by_start(ranges) ==
    IF ranges = <<>> THEN <<>>
    ELSE LET sorted == sort_by_start(SubSeq(ranges, 1, Len(ranges) - 1))
             last == ranges[Len(ranges)]
             before == {i \in 1..Len(sorted) : ~LeLess(last.start, sorted[i].start)}
             n == IF before = {} THEN 0
                  ELSE CHOOSE i \in before : \A j \in before : j <= i
         IN  SubSeq(sorted, 1, n) \o <<last>> \o SubSeq(sorted, n + 1, Len(sorted))

\* what the loop of accept pushes for one range
accept_range(range, start, end) ==
    IF range.accepted \/ ~LeLess(start, range.end) \/ ~LeLess(range.start, end)
    THEN <<range>>
    ELSE (IF LeLess(range.start, start)
          THEN <<Range(FALSE, range.start, start)>> ELSE <<>>)
         \o (IF LeLess(end, range.end)
             THEN <<Range(FALSE, end, range.end)>> ELSE <<>>)

\* MemoryAcceptor::accept
accept(ranges, start, end) ==
    IF ~LeLess(start, end) THEN ranges
    ELSE sort_by_start(
            Concat([i \in 1..Len(ranges) |-> accept_range(ranges[i], start, end)])
            \o <<Range(TRUE, start, end)>>)

\* the loop over the sections of measure_td_hob: the acceptor and
\* td_hob_base_addr after the sections from i on
RECURSIVE accept_sections(_, _, _, _)
accept_sections(sections, i, ranges, td_hob_base_addr) ==
    IF i > Len(sections)
    THEN [ranges |-> ranges, td_hob_base_addr |-> td_hob_base_addr]
    ELSE LET sec == sections[i]
         IN  accept_sections(
                sections, i + 1,
                IF sec.sec_type \in {TDVF_SECTION_TD_HOB, TDVF_SECTION_TEMP_MEM}
                THEN accept(ranges, sec.memory_address,
                            U64Add(sec.memory_address, sec.memory_data_size))
                ELSE ranges,
                IF sec.sec_type = TDVF_SECTION_TD_HOB THEN sec.memory_address
                ELSE td_hob_base_addr)

\* the 56 bytes of the handoff block header, the end of the list still zero
HobHeader ==
    <<1, 0>> \o Le(56, 2) \o [i \in 1..4 |-> 0] \o Le(9, 4)
        \o [i \in 1..4 |-> 0] \o [i \in 1..40 |-> 0]

\* the closure add_memory_resource_hob: the 48 bytes it appends
add_memory_resource_hob(resource_type, start, length) ==
    <<3, 0>> \o Le(48, 2) \o [i \in 1..4 |-> 0] \o [i \in 1..16 |-> 0]
        \o <<resource_type>> \o [i \in 1..3 |-> 0] \o Le(7, 4)
        \o start \o length

\* the HOBs of the last range
last_range_hobs(memory_size, last_start, last_end) ==
    IF ~LeLess(memory_size, SplitThreshold)
    THEN (IF LeLess(last_start, Below4G)
          THEN add_memory_resource_hob(7, last_start, U64Sub(Below4G, last_start))
          ELSE <<>>)
         \o (IF LeLess(Below4G, last_end)
             THEN add_memory_resource_hob(7, Above4G, U64Sub(last_end, Below4G))
             ELSE <<>>)
    ELSE add_memory_resource_hob(7, last_start, U64Sub(last_end, last_start))

HobOk(td_hob) == [kind |-> "ok", error |-> "", td_hob |-> td_hob]
HobErr(error) == [kind |-> "err", error |-> error, td_hob |-> <<>>]

\* measure_td_hob after the loop over the sections; the digest it returns
\* stands for the blob it is computed from
td_hob_of(ranges, td_hob_base_addr, memory_size) ==
    IF ranges = <<>> THEN HobErr("No ranges")
    ELSE
    LET last == ranges[Len(ranges)]
        rest == SubSeq(ranges, 1, Len(ranges) - 1)
    IN  IF \E i \in 1..Len(rest) : LeLess(rest[i].end, rest[i].start)
        THEN HobErr("Invalid memory range: end < start")
        ELSE IF LeLess(last.end, last.start)
        THEN HobErr("Invalid last memory range: end < start")
        ELSE
        LET td_hob ==
               HobHeader
               \o Concat([i \in 1..Len(rest) |->
                     add_memory_resource_hob(
                        IF rest[i].accepted THEN 0 ELSE 7, rest[i].start,
                        U64Sub(rest[i].end, rest[i].start))])
               \o last_range_hobs(memory_size, last.start, last.end)
            end_of_hob_list ==
               U64Add(U64Add(td_hob_base_addr, U64(Len(td_hob))), U64(8))
        IN  HobOk(SubSeq(td_hob, 1, 48) \o end_of_hob_list
                  \o SubSeq(td_hob, 57, Len(td_hob)))

\* measure_td_hob
measure_td_hob(sections, memory_size) ==
    LET accepted == accept_sections(sections, 1,
                                    MemoryAcceptor_new(U64(0), memory_size),
                                    DefaultTdHobBase)
    IN  td_hob_of(accepted.ranges, accepted.td_hob_base_addr, memory_size)

\* the most sections of a firmware measure_td_hob is called on
MaxHobSections == 2

HobSection(sec_type, memory_address, memory_data_size) ==
    [sec_type |-> sec_type, memory_address |-> memory_address,
     memory_data_size |-> memory_data_size]

\* the sections: TD_HOB and TEMP_MEM sections of one or two pages at the
\* bottom of the memory and around 0x80000000, one without pages, and one of
\* another type
HobSectionKinds ==
    { HobSection(t, a, n) :
        t \in {TDVF_SECTION_TD_HOB, TDVF_SECTION_TEMP_MEM},
        a \in { U64(0), U64(PAGE_SIZE), Below4G,
                <<0, 0, 0, 144, 0, 0, 0, 0>> },
        n \in { U64(PAGE_SIZE), U64(2 * PAGE_SIZE) } }
    \cup { HobSection(TDVF_SECTION_TEMP_MEM, U64(PAGE_SIZE), U64(0)),
           HobSection(0, U64(0), U64(PAGE_SIZE)) }

\* memory_size: 0x3000, 0x90002000, 0xB0000000 and 0xC0000800
MemorySizes ==
    { U64(3 * PAGE_SIZE), <<0, 32, 0, 144, 0, 0, 0, 0>>, SplitThreshold,
      <<0, 8, 0, 192, 0, 0, 0, 0>> }

HobInit ==
    /\ hb_pc = "call"
    /\ \E n \in 0..MaxHobSections :
          \E sections \in [1..n -> HobSectionKinds], memory_size \in MemorySizes :
             hb_input = [sections |-> sections, memory_size |-> memory_size]
    /\ hb_ranges = <<>>
    /\ hb_result = <<>>

\* one call of measure_td_hob
HobCall ==
    /\ hb_pc = "call"
    /\ hb_ranges' = accept_sections(hb_input.sections, 1,
                                    MemoryAcceptor_new(U64(0), hb_input.memory_size),
                                    DefaultTdHobBase).ranges
    /\ hb_result' = measure_td_hob(hb_input.sections, hb_input.memory_size)
    /\ hb_pc' = "returned"
    /\ UNCHANGED hb_input

\* -------------------------------------------------------------------------
\* dstack-mr: Tdvf::rtmr0_log and the RTMR0 of measure_with_logs
\* -------------------------------------------------------------------------
\* a 48-byte digest: one written in the code ("constant", its bytes), or
\* SHA-384 of some bytes ("sha384", standing for the bytes it is computed from)
Digest(kind, of) == [kind |-> kind, of |-> of]

\* measure_sha384
measure_sha384(data) == Digest("sha384", data)

\* utf16_encode of an ASCII name, given as its character codes: UTF-16LE
utf16_encode(name) == Concat([i \in 1..Len(name) |-> <<name[i], 0>>])

\* measure_log on such digests: the register stands for the digests folded
\* into the zero register, in order
measure_log_digests(log) == [extended_from_zero |-> log]

\* 8BE4DF61-93CA-11D2-AA0D-00E098032B8C and
\* D719B2CB-3D3A-4596-A3BC-DAD00E67656F as their atoms
EFI_GLOBAL_GUID ==
    << <<139, 228, 223, 97>>, <<147, 202>>, <<17, 210>>, <<170, 13>>,
       <<0, 224, 152, 3, 43, 140>> >>
EFI_IMAGE_SECURITY_GUID ==
    << <<215, 25, 178, 203>>, <<61, 58>>, <<69, 150>>, <<163, 188>>,
       <<218, 208, 14, 103, 101, 111>> >>

\* "SecureBoot", "PK", "KEK", "db", "dbx"
NameSecureBoot == <<83, 101, 99, 117, 114, 101, 66, 111, 111, 116>>
NamePK == <<80, 75>>
NameKEK == <<75, 69, 75>>
NameDb == <<100, 98>>
NameDbx == <<100, 98, 120>>

measure_tdx_efi_variable(vendor_guid, var_name) ==
    measure_sha384(encode_guid(vendor_guid) \o Le(Len(var_name), 8) \o Le(0, 8)
                   \o utf16_encode(var_name))

cfv_image_hash ==
    Digest("constant",
       <<52, 75, 197, 28, 152, 11, 166, 33, 170, 160, 13, 163, 237, 116, 54,
       247, 214, 229, 73, 25, 125, 254, 105, 149, 21, 223, 162, 198, 88, 61,
       149, 230, 65, 42, 242, 28, 9, 125, 71, 49, 85, 135, 95, 253, 86, 29,
       103, 144>>)
boot000_hash ==
    Digest("constant",
       <<35, 173, 160, 127, 82, 97, 241, 47, 52, 160, 189, 142, 70, 118, 9,
       98, 214, 180, 213, 118, 164, 22, 241, 254, 161, 198, 75, 198, 86, 177,
       210, 142, 172, 247, 4, 122, 230, 233, 103, 197, 143, 210, 169, 139,
       250, 116, 194, 152>>)

\* Result<(RtmrLog, Tables)>
Rtmr0Ok(log, tables) == [kind |-> "ok", error |-> "", log |-> log, tables |-> tables]
Rtmr0Err(error) == [kind |-> "err", error |-> error, log |-> <<>>, tables |-> <<>>]

\* rtmr0_log with the three ACPI digests in the order tables, rsdp, loader
rtmr0_log_tables_first(sections, machine) ==
    LET td_hob == measure_td_hob(sections, machine.memory_size)
    IN  IF td_hob.kind # "ok" THEN Rtmr0Err(td_hob.error)
        ELSE IF ~machine.build_tables.some THEN Rtmr0Err("build_tables")
        ELSE LET tables == machine.build_tables.value
             IN  Rtmr0Ok(<< measure_sha384(td_hob.td_hob),
                            cfv_image_hash,
                            measure_tdx_efi_variable(EFI_GLOBAL_GUID, NameSecureBoot),
                            measure_tdx_efi_variable(EFI_GLOBAL_GUID, NamePK),
                            measure_tdx_efi_variable(EFI_GLOBAL_GUID, NameKEK),
                            measure_tdx_efi_variable(EFI_IMAGE_SECURITY_GUID, NameDb),
                            measure_tdx_efi_variable(EFI_IMAGE_SECURITY_GUID, NameDbx),
                            measure_sha384(<<0, 0, 0, 0>>),
                            measure_sha384(tables.tables),
                            measure_sha384(tables.rsdp),
                            measure_sha384(tables.loader),
                            measure_sha384(<<0, 0>>),
                            boot000_hash >>, tables)
\* rtmr0_log; machine.build_tables is what build_tables() returns for the
\* machine: Some(the three blobs) or None for its error
rtmr0_log(sections, machine) ==
    LET td_hob == measure_td_hob(sections, machine.memory_size)
    IN  IF td_hob.kind # "ok" THEN Rtmr0Err(td_hob.error)
        ELSE IF ~machine.build_tables.some THEN Rtmr0Err("build_tables")
        ELSE LET tables == machine.build_tables.value
                 acpi_tables_hash == measure_sha384(tables.tables)
                 acpi_rsdp_hash == measure_sha384(tables.rsdp)
                 acpi_loader_hash == measure_sha384(tables.loader)
             IN  Rtmr0Ok(<< measure_sha384(td_hob.td_hob),
                            cfv_image_hash,
                            measure_tdx_efi_variable(EFI_GLOBAL_GUID, NameSecureBoot),
                            measure_tdx_efi_variable(EFI_GLOBAL_GUID, NamePK),
                            measure_tdx_efi_variable(EFI_GLOBAL_GUID, NameKEK),
                            measure_tdx_efi_variable(EFI_IMAGE_SECURITY_GUID, NameDb),
                            measure_tdx_efi_variable(EFI_IMAGE_SECURITY_GUID, NameDbx),
                            measure_sha384(<<0, 0, 0, 0>>),
                            acpi_loader_hash,
                            acpi_rsdp_hash,
                            acpi_tables_hash,
                            measure_sha384(<<0, 0>>),
                            boot000_hash >>, tables)

\* measure_with_logs from rtmr0_log to rtmr0: the RTMR0 entries of the
\* TdxMeasurementDetails it returns, or the error
measure_rtmr0(sections, machine) ==
    LET r == rtmr0_log(sections, machine)
    IN  IF r.kind # "ok"
        THEN [kind |-> "err", error |-> "Failed to compute RTMR0 log",
              rtmr0 |-> measure_log_digests(<<>>), rtmr0_log |-> <<>>,
              acpi_tables |-> <<>>]
        ELSE [kind |-> "ok", error |-> "",
              rtmr0 |-> measure_log_digests(r.log), rtmr0_log |-> r.log,
              acpi_tables |-> r.tables]

\* what build_tables returns: three different blobs, three equal blobs, or
\* an error
TablesOutcomes ==
    { Some([tables |-> <<1>>, rsdp |-> <<2>>, loader |-> <<3>>]),
      Some([tables |-> <<1>>, rsdp |-> <<1>>, loader |-> <<1>>]),
      None }

Rtmr0Init ==
    /\ r0_pc = "call"
    /\ \E n \in 0..1 :
          \E sections \in [1..n -> HobSectionKinds], memory_size \in MemorySizes,
             build_tables \in TablesOutcomes :
             r0_input = [sections |-> sections,
                         machine |-> [memory_size |-> memory_size,
                                      build_tables |-> build_tables]]
    /\ r0_result = <<>>

\* measure_with_logs, the RTMR0 part
Rtmr0Call ==
    /\ r0_pc = "call"
    /\ r0_result' = measure_rtmr0(r0_input.sections, r0_input.machine)
    /\ r0_pc' = "returned"
    /\ UNCHANGED r0_input

\* the state of the dstack-mr functions
mrVars == <<optionsVars, tdvfVars, auxVars>>
MrIdle == OptionsIdle /\ TdvfIdle /\ AuxIdle


(***************************************************************************)
(* Files of the verifier: images/<hash>/, images/tmp/tmp-download-*, the    *)
(* tarball served at download_url, measurements/<key>.json                  *)
(***************************************************************************)
Tasks == {"t1", "t2"}

\* hex_os_image_hash of the requests, and another SHA-256 value
ImageHash == "H"
OtherHash == "X"

\* a directory: its entries, and what its sha256sum.txt says (the names in the
\* second column, the SHA-256 of the file's bytes, and whether
\* "sha256sum -c sha256sum.txt" succeeds there); the manifest fields mean
\* something only while "sha256sum.txt" is among the files
MkDir(files, listed, sum, checks_ok) ==
    [exists |-> TRUE, files |-> files, listed |-> listed, sum |-> sum,
     checks_ok |-> checks_ok]
NoDir ==
    [exists |-> FALSE, files |-> {}, listed |-> {}, sum |-> "none",
     checks_ok |-> FALSE]

\* what download_url answers for the hash: an HTTP status and a gzipped tar
MkServer(status, tar_ok, content) ==
    [status |-> status, tar_ok |-> tar_ok, content |-> content]

BundleFiles == {"metadata.json", "sha256sum.txt", "kernel"}
GoodBundle == MkDir(BundleFiles, {"metadata.json", "kernel"}, ImageHash, TRUE)

Servers ==
    { MkServer("200", TRUE, GoodBundle),
      \* an extra file that the manifest does not list
      MkServer("200", TRUE, MkDir(BundleFiles \cup {"extra"},
                                  {"metadata.json", "kernel"}, ImageHash, TRUE)),
      \* a manifest with a line naming sha256sum.txt itself
      MkServer("200", TRUE, MkDir(BundleFiles,
                                  {"metadata.json", "kernel", "sha256sum.txt"},
                                  ImageHash, TRUE)),
      \* metadata.json shipped but not listed
      MkServer("200", TRUE, MkDir(BundleFiles, {"kernel"}, ImageHash, TRUE)),
      \* a manifest with another hash
      MkServer("200", TRUE, MkDir(BundleFiles, {"metadata.json", "kernel"},
                                  OtherHash, TRUE)),
      \* a file that does not match its checksum
      MkServer("200", TRUE, MkDir(BundleFiles, {"metadata.json", "kernel"},
                                  ImageHash, FALSE)),
      \* no manifest at all
      MkServer("200", TRUE, MkDir({"metadata.json", "kernel"}, {}, "none", FALSE)),
      \* not a gzipped tar
      MkServer("200", FALSE, NoDir),
      MkServer("404", FALSE, NoDir) }

\* images/<hash>/ when the verifier starts: absent, empty, left without
\* metadata.json, or a complete bundle
InitialDirs ==
    { NoDir,
      MkDir({}, {}, "none", FALSE),
      MkDir({"kernel"}, {}, "none", FALSE),
      MkDir({"metadata.json", "kernel"}, {}, "none", FALSE) }

\* images/tmp/tmp-download-XXXX of one download_image call
MkTmp(tarball, extracted) ==
    [exists |-> TRUE, tarball |-> tarball, extracted |-> extracted]
NoTmp == [exists |-> FALSE, tarball |-> "none", extracted |-> NoDir]

(***************************************************************************)
(* Measurements and the measurement cache                                  *)
(***************************************************************************)
MkMrs(mrtd, rtmr0, rtmr1, rtmr2) ==
    [mrtd |-> mrtd, rtmr0 |-> rtmr0, rtmr1 |-> rtmr1, rtmr2 |-> rtmr2]
NoMrs == MkMrs("none", "none", "none", "none")

MEASUREMENT_CACHE_VERSION == 1

\* a file of the cache directory: how much of the JSON entry it holds
MkFile(bytes, version, measurements) ==
    [bytes |-> bytes, version |-> version, measurements |-> measurements]
NoFile == MkFile("absent", 0, NoMrs)

\* Machine::measure_with_logs on the files of the image directory: a function
\* of the vm_config and of the image, both fixed here
ExpectedMrs == MkMrs("mrtd", "rtmr0", "rtmr1", "rtmr2")

\* the serialised CachedMeasurement
CachedMeasurementSwapped(measurements) ==
    MkFile("complete", MEASUREMENT_CACHE_VERSION,
           MkMrs(measurements.mrtd, measurements.rtmr0, measurements.rtmr2,
                 measurements.rtmr1))
CachedMeasurementUnversioned(measurements) == MkFile("complete", 0, measurements)
CachedMeasurement(measurements) ==
    MkFile("complete", MEASUREMENT_CACHE_VERSION, measurements)

\* measurements/<key>.json when the verifier starts: absent, an entry of this
\* version, an entry of another version, or bytes that are no JSON entry
InitialCache ==
    { NoFile,
      CachedMeasurement(ExpectedMrs),
      MkFile("complete", 0, ExpectedMrs),
      MkFile("garbage", 0, NoMrs) }

(***************************************************************************)
(* Requests, attestations and responses                                    *)
(***************************************************************************)
\* the TD report of a verified quote: each of MRTD, RTMR0..2 is the value the
\* measurement engine computes for the image or another value
Reports ==
    [mr_td : {ExpectedMrs.mrtd, "other"}, rt_mr0 : {ExpectedMrs.rtmr0, "other"},
     rt_mr1 : {ExpectedMrs.rtmr1, "other"}, rt_mr2 : {ExpectedMrs.rtmr2, "other"},
     rt_mr3 : {ZeroRegister, Sha384Extend(ZeroRegister, 1),
               Sha384Extend(ZeroRegister, MaxDigest)}]

\* the events a guest reports in a request: RTMR3 events, and events of an
\* index that is no register
GuestEvents ==
    {e \in EventLog : e.imr = 3 \/ (e.imr = MaxImr /\ e.digest = 1)}

\* a verified attestation: the report and the raw event log (JSON that parses
\* to a list of events, or does not parse)
Attestations ==
    [report : Reports, log_parses : {TRUE},
     event_log : SeqsUpTo(GuestEvents, MaxGuestEvents)]
    \cup [report : Reports, log_parses : {FALSE}, event_log : {<<>>}]

NoAttestation ==
    [report |-> [mr_td |-> "none", rt_mr0 |-> "none", rt_mr1 |-> "none",
                 rt_mr2 |-> "none", rt_mr3 |-> ZeroRegister],
     log_parses |-> FALSE, event_log |-> <<>>]

\* the attestation of a guest that booted the expected image and reported
\* one RTMR3 event
GoodAttestation ==
    [report |-> [mr_td |-> ExpectedMrs.mrtd, rt_mr0 |-> ExpectedMrs.rtmr0,
                 rt_mr1 |-> ExpectedMrs.rtmr1, rt_mr2 |-> ExpectedMrs.rtmr2,
                 rt_mr3 |-> Sha384Extend(ZeroRegister, 1)],
     log_parses |-> TRUE,
     event_log |-> <<[imr |-> 3, digest |-> 1, intact |-> TRUE]>>]

\* the attestations a verified quote may carry
AttestationsOf(whose) ==
    IF whose = "any" THEN Attestations ELSE {GoodAttestation}

\* VerificationDetails, the three flags
MkDetails(q, e, o) ==
    [quote_verified |-> q, event_log_verified |-> e, os_image_hash_verified |-> o]
NoDetails == MkDetails(FALSE, FALSE, FALSE)

\* VerificationResponse; reason is None (present = FALSE) or
\* Some("<stage>: <cause>")
MkReason(stage, cause) == [present |-> TRUE, stage |-> stage, cause |-> cause]
NoReason == [present |-> FALSE, stage |-> "", cause |-> ""]
MkResponse(is_valid, details, reason) ==
    [produced |-> TRUE, is_valid |-> is_valid, details |-> details,
     reason |-> reason]
NoResponse ==
    [produced |-> FALSE, is_valid |-> FALSE, details |-> NoDetails,
     reason |-> NoReason]


(***************************************************************************)
(* The comparison of verify_os_image_hash                                  *)
(***************************************************************************)
\* Mrs::assert_eq: the first field that differs names the error
Mrs_assert_eq_no_rtmr2(self, other) ==
    IF self.mrtd # other.mrtd THEN "MRTD mismatch"
    ELSE IF self.rtmr0 # other.rtmr0 THEN "RTMR0 mismatch"
    ELSE IF self.rtmr1 # other.rtmr1 THEN "RTMR1 mismatch"
    ELSE "ok"
Mrs_assert_eq(self, other) ==
    IF self.mrtd # other.mrtd THEN "MRTD mismatch"
    ELSE IF self.rtmr0 # other.rtmr0 THEN "RTMR0 mismatch"
    ELSE IF self.rtmr1 # other.rtmr1 THEN "RTMR1 mismatch"
    ELSE IF self.rtmr2 # other.rtmr2 THEN "RTMR2 mismatch"
    ELSE "ok"

\* verified_mrs: the four registers of the quote's TD report
verified_mrs(report) ==
    MkMrs(report.mr_td, report.rt_mr0, report.rt_mr1, report.rt_mr2)

\* the end of verify_os_image_hash, from the parse of the event log on: "ok"
\* or the error it returns
compare_mrs_first(expected_mrs, attestation) ==
    IF ~attestation.log_parses
    THEN "Failed to parse event log for mismatch analysis"
    ELSE LET computation_result == replay_event_logs(attestation.event_log)
         IN  IF ~computation_result.ok
             THEN "Failed to replay event logs for mismatch analysis"
             ELSE IF Mrs_assert_eq(expected_mrs, verified_mrs(attestation.report)) # "ok"
             THEN Mrs_assert_eq(expected_mrs, verified_mrs(attestation.report))
             ELSE IF computation_result.rtmrs[3] # attestation.report.rt_mr3
             THEN "RTMR3 mismatch"
             ELSE "ok"
compare_mrs(expected_mrs, attestation) ==
    IF ~attestation.log_parses
    THEN "Failed to parse event log for mismatch analysis"
    ELSE LET computation_result == replay_event_logs(attestation.event_log)
         IN  IF ~computation_result.ok
             THEN "Failed to replay event logs for mismatch analysis"
             ELSE IF computation_result.rtmrs[3] # attestation.report.rt_mr3
             THEN "RTMR3 mismatch"
             ELSE Mrs_assert_eq(expected_mrs, verified_mrs(attestation.report))

(***************************************************************************)
(* verify_os_image_hash in debug mode: the report on the RTMRs that differ *)
(***************************************************************************)
\* the most digests of an expected RTMR log
MaxExpectedLen == 2

\* measure_log: the fold of a log of digests from the zero register
RECURSIVE measure_log(_)
measure_log(log) ==
    IF log = <<>> THEN ZeroRegister
    ELSE Sha384Extend(measure_log(SubSeq(log, 1, Len(log) - 1)), log[Len(log)])

\* event_log.get(idx), idx counted from 0
get(event_log, idx) ==
    IF idx < Len(event_log) THEN Some(event_log[idx + 1]) ELSE None

\* RtmrEventEntry, without the name, type and payload length of the event;
\* a digest stands for its hex encoding
RtmrEventEntry(index, actual_digest, expected_digest, status) ==
    [index |-> index, actual_digest |-> actual_digest,
     expected_digest |-> expected_digest, status |-> status]

\* the entry the first loop pushes for the pair (idx, expected_digest)
zipped_entry(event_log, idx, expected_digest) ==
    LET event == get(event_log, idx)
    IN  IF event.some
        THEN RtmrEventEntry(idx, Some(event.value.digest), Some(expected_digest),
                            IF event.value.digest = expected_digest
                            THEN "match" ELSE "mismatch")
        ELSE RtmrEventEntry(idx, None, Some(expected_digest), "missing")

\* the entry the second loop pushes for idx
extra_entry(event_log, idx) ==
    LET event == get(event_log, idx)
    IN  RtmrEventEntry(idx,
                       IF event.some THEN Some(event.value.digest) ELSE None,
                       None, "extra")

RtmrMismatch(rtmr, expected, actual, events, missing_expected_digests) ==
    [rtmr |-> rtmr, expected |-> expected, actual |-> actual,
     events |-> events, missing_expected_digests |-> missing_expected_digests]

\* collect_rtmr_mismatch whose second loop starts one entry too late
collect_rtmr_mismatch_skip_one(rtmr_label, expected, actual, expected_sequence, actual_indices, event_log) ==
    LET zipped == IF Len(actual_indices) < Len(expected_sequence)
                  THEN Len(actual_indices) ELSE Len(expected_sequence)
    IN  RtmrMismatch(rtmr_label, expected, actual,
            [k \in 1..zipped |->
                zipped_entry(event_log, actual_indices[k], expected_sequence[k])]
            \o [k \in 1..(Len(actual_indices) - zipped - 1) |->
                extra_entry(event_log, actual_indices[zipped + 1 + k])],
            SubSeq(expected_sequence, Len(actual_indices) + 1,
                   Len(expected_sequence)))
\* collect_rtmr_mismatch: the zip of the guest's indices with the expected
\* digests, then the indices past the expected sequence, then the expected
\* digests past the guest's indices
collect_rtmr_mismatch(rtmr_label, expected, actual, expected_sequence, actual_indices, event_log) ==
    LET zipped == IF Len(actual_indices) < Len(expected_sequence)
                  THEN Len(actual_indices) ELSE Len(expected_sequence)
    IN  RtmrMismatch(rtmr_label, expected, actual,
            [k \in 1..zipped |->
                zipped_entry(event_log, actual_indices[k], expected_sequence[k])]
            \o [k \in 1..(Len(actual_indices) - zipped) |->
                extra_entry(event_log, actual_indices[zipped + k])],
            SubSeq(expected_sequence, Len(actual_indices) + 1,
                   Len(expected_sequence)))

RtmrLabel(i) == CASE i = 0 -> "RTMR0" [] i = 1 -> "RTMR1" [] i = 2 -> "RTMR2"
MrsRtmr(m, i) == CASE i = 0 -> m.rtmr0 [] i = 1 -> m.rtmr1 [] i = 2 -> m.rtmr2

\* the pushes "if expected_mrs.rtmrI != verified_mrs.rtmrI" for I from i to 2
RECURSIVE rtmr_debug_from(_, _, _, _, _, _)
rtmr_debug_from(i, expected_mrs, verified, expected_logs, computation_result, event_log) ==
    IF i > 2 THEN <<>>
    ELSE (IF MrsRtmr(expected_mrs, i) # MrsRtmr(verified, i)
          THEN <<collect_rtmr_mismatch(RtmrLabel(i), MrsRtmr(expected_mrs, i),
                                       MrsRtmr(verified, i), expected_logs[i + 1],
                                       computation_result.event_indices[i],
                                       event_log)>>
          ELSE <<>>)
         \o rtmr_debug_from(i + 1, expected_mrs, verified, expected_logs,
                            computation_result, event_log)

\* the end of verify_os_image_hash with details.rtmr_debug: the error of
\* compare_mrs, and the reports when assert_eq failed in debug mode with the
\* expected logs at hand
os_image_tail(is_debug, expected_mrs, expected_logs, attestation) ==
    LET error == compare_mrs(expected_mrs, attestation)
        computation_result == replay_event_logs(attestation.event_log)
        verified == verified_mrs(attestation.report)
    IN  IF /\ attestation.log_parses
           /\ computation_result.ok
           /\ computation_result.rtmrs[3] = attestation.report.rt_mr3
           /\ error # "ok"
           /\ is_debug
           /\ expected_logs.some
        THEN LET rtmr_debug == rtmr_debug_from(0, expected_mrs, verified,
                                               expected_logs.value,
                                               computation_result,
                                               attestation.event_log)
             IN  [error |-> error,
                  rtmr_debug |-> IF rtmr_debug # <<>> THEN Some(rtmr_debug)
                                 ELSE None]
        ELSE [error |-> error, rtmr_debug |-> None]

\* the events of a guest that extends RTMR0 to RTMR3, one of them with a
\* digest that does not match its content
MismatchEvents ==
    {e \in EventLog : \/ e.imr = 0 /\ e.intact
                      \/ e.imr \in 1..3 /\ e.digest = 1 /\ e.intact
                      \/ e.imr = 0 /\ e.digest = 1 /\ ~e.intact}

\* the digests of the events of the log that extend RTMR i
RECURSIVE DigestsOf(_, _)
DigestsOf(event_log, i) ==
    IF event_log = <<>> THEN <<>>
    ELSE (IF Head(event_log).imr = i THEN <<Head(event_log).digest>> ELSE <<>>)
         \o DigestsOf(Tail(event_log), i)

\* the inputs of one call: the logs computed for the image (RTMR0's is any
\* log), the guest's event log, and a report whose RTMR0..2 are what the
\* guest's events extend to or what the image extends to
MismatchInput(is_debug, log0, event_log, parses, as_image, mr_td, rt_mr3_ok) ==
    LET expected_logs == <<log0, <<1>>, <<>>>>
        measured(i) == IF as_image THEN measure_log(expected_logs[i + 1])
                       ELSE measure_log(DigestsOf(event_log, i))
    IN  [debug |-> is_debug,
         expected_mrs |-> MkMrs("mrtd", measure_log(expected_logs[1]),
                                measure_log(expected_logs[2]),
                                measure_log(expected_logs[3])),
         expected_logs |-> IF is_debug THEN Some(expected_logs) ELSE None,
         attestation |->
            [report |-> [mr_td |-> mr_td, rt_mr0 |-> measured(0),
                         rt_mr1 |-> measured(1), rt_mr2 |-> measured(2),
                         rt_mr3 |-> IF rt_mr3_ok
                                    THEN measure_log(DigestsOf(event_log, 3))
                                    ELSE Sha384Extend(
                                           measure_log(DigestsOf(event_log, 3)), 1)],
             log_parses |-> parses,
             event_log |-> event_log]]

MismatchInit ==
    /\ mm_pc = "call"
    /\ \E is_debug \in BOOLEAN, parses \in BOOLEAN, as_image \in BOOLEAN,
          mr_td \in {"mrtd", "other"}, rt_mr3_ok \in BOOLEAN :
          \E n \in 0..MaxExpectedLen, m \in 0..MaxGuestEvents :
             \E log0 \in [1..n -> Digests], event_log \in [1..m -> MismatchEvents] :
                mm_input = MismatchInput(is_debug, log0, event_log, parses,
                                         as_image, mr_td, rt_mr3_ok)
    /\ mm_result = <<>>

\* verify_os_image_hash from the expected measurements on
MismatchCall ==
    /\ mm_pc = "call"
    /\ mm_result' = os_image_tail(mm_input.debug, mm_input.expected_mrs,
                                  mm_input.expected_logs, mm_input.attestation)
    /\ mm_pc' = "returned"
    /\ UNCHANGED mm_input

(***************************************************************************)
(* The verifier: state                                                     *)
(***************************************************************************)
VARIABLES
    clients,      \* the tasks that receive a request
    guests,       \* whose quotes the clients send: "any" guest's or "one" guest's
    server,       \* what download_url serves for the hash
    dst,          \* images/<hash>/
    tmp,          \* tmp[t]: the temp directory of t's download_image
    cacheFile,    \* measurements/<key>.json
    cacheTmp,     \* cacheTmp[t]: the NamedTempFile of t's store
    faults,       \* I/O faults injected so far
    pc,           \* pc[t]: where task t stands in verify
    debug,        \* debug[t]: request.debug
    details,      \* details[t]: the VerificationDetails being filled
    mrs,          \* mrs[t]: the expected measurements obtained
    contents,     \* contents[t]: the bytes read from the cache file
    att,          \* att[t]: the verified attestation compared
    resp,         \* resp[t]: the response of the handler
    download,     \* download[t]: how t's download_image call ended
    touched,      \* touched[t]: that call removed or replaced images/<hash>/
    lastStore,    \* the task whose persist came last
    os_request,   \* --verify <file>: what the file holds
    os_stage,     \* where run_oneshot stands
    os_output,    \* <file>.verification.json
    os_exit       \* the exit code of the process

oneshotVars == <<os_request, os_stage, os_output, os_exit>>

verifierVars ==
    <<clients, guests, server, dst, tmp, cacheFile, cacheTmp, faults,
      pc, debug, details, mrs, contents, att, resp, download, touched,
      lastStore, oneshotVars>>

vars == <<replayVars, mrVars, verifierVars>>

VerifierStart ==
    /\ faults = 0
    /\ tmp = [t \in Tasks |-> NoTmp]
    /\ cacheTmp = [t \in Tasks |-> NoFile]
    /\ pc = [t \in Tasks |-> "idle"]
    /\ debug = [t \in Tasks |-> FALSE]
    /\ details = [t \in Tasks |-> NoDetails]
    /\ mrs = [t \in Tasks |-> NoMrs]
    /\ contents = [t \in Tasks |-> NoFile]
    /\ att = [t \in Tasks |-> NoAttestation]
    /\ resp = [t \in Tasks |-> NoResponse]
    /\ download = [t \in Tasks |-> "none"]
    /\ touched = [t \in Tasks |-> FALSE]
    /\ lastStore = "none"

\* the process serves HTTP: it was started without --verify
NoExit == 0 - 1
OneshotIdle ==
    /\ os_request = "none"
    /\ os_stage = "idle"
    /\ os_output = NoResponse
    /\ os_exit = NoExit

\* the process was started with --verify <file>, the file being absent,
\* not a VerificationRequest, or a VerificationRequest
OneshotInit ==
    /\ os_request \in {"unreadable", "not json", "request"}
    /\ os_stage = "start"
    /\ os_output = NoResponse
    /\ os_exit = NoExit

\* no request is ever received
VerifierIdle ==
    /\ clients = {}
    /\ guests = "one"
    /\ server = MkServer("404", FALSE, NoDir)
    /\ dst = NoDir
    /\ cacheFile = NoFile
    /\ VerifierStart
    /\ OneshotIdle

\* one request, of any attestation; the image is served as published or
\* not at all
VerifierInitOne ==
    /\ clients = {"t1"}
    /\ guests = "any"
    /\ server \in {MkServer("200", TRUE, GoodBundle), MkServer("404", FALSE, NoDir)}
    /\ dst \in InitialDirs
    /\ cacheFile \in InitialCache
    /\ VerifierStart
    /\ OneshotIdle

\* the request of the file given to --verify, of any attestation
VerifierInitOneshot ==
    /\ clients = {"t1"}
    /\ guests = "any"
    /\ server \in {MkServer("200", TRUE, GoodBundle), MkServer("404", FALSE, NoDir)}
    /\ dst \in InitialDirs
    /\ cacheFile \in InitialCache
    /\ VerifierStart
    /\ OneshotInit

\* concurrent requests of the same guest
VerifierInitAll ==
    /\ clients = Tasks
    /\ guests = "one"
    /\ server \in Servers
    /\ dst \in InitialDirs
    /\ cacheFile \in InitialCache
    /\ VerifierStart
    /\ OneshotIdle


(***************************************************************************)
(* The verifier: responses of verify and of the HTTP handler                *)
(***************************************************************************)
Set(f, t, v) == [f EXCEPT ![t] = v]

\* a syscall, a child process or the network may fail, MaxFaults times
FaultChoices == IF faults < MaxFaults THEN BOOLEAN ELSE {FALSE}
Inject(fault) == faults' = IF fault THEN faults + 1 ELSE faults

\* details.quote_verified = true
mark_quote_verified(d) == [d EXCEPT !.quote_verified = TRUE]

\* details.os_image_hash_verified = true, after verify_os_image_hash
\* returned Ok
mark_os_image_hash_verified(d) == [d EXCEPT !.os_image_hash_verified = TRUE]

\* details.event_log_verified = true
mark_event_log_verified(d) == [d EXCEPT !.event_log_verified = TRUE]

\* verify_cvm: the response when verify returns Err
verify_cvm_fallback ==
    MkResponse(FALSE, NoDetails, MkReason("Internal error", "verify"))

\* verify: the response when verify_quote returns Err
quote_failed(d) ==
    MkResponse(FALSE, d, MkReason("Quote verification failed", "dcap"))

\* verify: the response when verify_os_image_hash returns Err(cause)
os_image_failed(d, cause) ==
    MkResponse(FALSE, d, MkReason("OS image hash verification failed", cause))

\* verify: the response when decode_app_info returns Err
event_log_failed_flagged(d) ==
    MkResponse(FALSE, mark_event_log_verified(d),
               MkReason("Event log verification failed", "app info"))
event_log_failed(d) ==
    MkResponse(FALSE, d, MkReason("Event log verification failed", "app info"))

\* verify: the final response
verified(d) == MkResponse(TRUE, d, NoReason)

Respond(t, r) ==
    /\ resp' = Set(resp, t, r)
    /\ pc' = Set(pc, t, "done")

OsFail(t, cause) == Respond(t, os_image_failed(details[t], cause))

\* metadata_path.exists()
metadata_exists(dir) == dir.exists /\ "metadata.json" \in dir.files

fixedVars == <<replayVars, mrVars, clients, guests, server, oneshotVars>>

(***************************************************************************)
(* verify, up to the image directory                                       *)
(***************************************************************************)
\* verify that goes on to the image after a quote that failed to verify
VerifyQuoteIgnored(t) ==
    /\ t \in clients
    /\ pc[t] = "idle"
    /\ \E decodes \in BOOLEAN, quote_ok \in BOOLEAN, dbg \in BOOLEAN :
         /\ debug' = Set(debug, t, dbg)
         /\ IF ~decodes
            THEN Respond(t, verify_cvm_fallback) /\ UNCHANGED details
            ELSE /\ details' = IF quote_ok
                               THEN Set(details, t, mark_quote_verified(details[t]))
                               ELSE details
                 /\ pc' = Set(pc, t, "os_image")
                 /\ UNCHANGED resp
    /\ UNCHANGED <<fixedVars, dst, tmp, cacheFile, cacheTmp, faults, mrs,
                   contents, att, download, touched, lastStore>>

\* verify: decode the request, verify the quote (Step 1)
Verify(t) ==
    /\ t \in clients
    /\ pc[t] = "idle"
    /\ \E decodes \in BOOLEAN, quote_ok \in BOOLEAN, dbg \in BOOLEAN :
         /\ debug' = Set(debug, t, dbg)
         /\ IF ~decodes
            THEN Respond(t, verify_cvm_fallback) /\ UNCHANGED details
            ELSE IF ~quote_ok
            THEN Respond(t, quote_failed(details[t])) /\ UNCHANGED details
            ELSE /\ details' = Set(details, t, mark_quote_verified(details[t]))
                 /\ pc' = Set(pc, t, "os_image")
                 /\ UNCHANGED resp
    /\ UNCHANGED <<fixedVars, dst, tmp, cacheFile, cacheTmp, faults, mrs,
                   contents, att, download, touched, lastStore>>

\* verify_os_image_hash: the TD report, then metadata_path.exists()
OsImage(t) ==
    /\ pc[t] = "os_image"
    /\ \E td10 \in BOOLEAN :
         IF ~td10
         THEN OsFail(t, "Failed to decode TD report")
         ELSE /\ pc' = Set(pc, t, IF metadata_exists(dst) THEN "read_meta"
                                                          ELSE "dl_begin")
              /\ UNCHANGED resp
    /\ UNCHANGED <<fixedVars, dst, tmp, cacheFile, cacheTmp, faults, debug,
                   details, mrs, contents, att, download, touched, lastStore>>

(***************************************************************************)
(* download_image                                                          *)
(***************************************************************************)
dlFrame ==
    <<fixedVars, cacheFile, cacheTmp, debug, details, mrs, contents, att,
      lastStore>>

\* an error return: auto_delete_temp_dir is dropped, verify_os_image_hash
\* returns the error
DlFail(t, cause) ==
    /\ tmp' = Set(tmp, t, NoTmp)
    /\ download' = Set(download, t, "failed")
    /\ OsFail(t, cause)

\* one step on the temp directory alone
DlStep(t, fault, failure, next_pc, new_tmp) ==
    /\ Inject(fault)
    /\ IF fault
       THEN DlFail(t, "Failed to download image: I/O error")
       ELSE IF failure # "ok"
       THEN DlFail(t, failure)
       ELSE /\ tmp' = Set(tmp, t, new_tmp)
            /\ pc' = Set(pc, t, next_pc)
            /\ UNCHANGED <<resp, download>>
    /\ UNCHANGED <<dst, touched>>

\* create_dir_all(images/tmp), tempdir_in
DlBegin(t) ==
    /\ pc[t] = "dl_begin"
    /\ touched' = Set(touched, t, FALSE)
    /\ \E fault \in FaultChoices :
         /\ Inject(fault)
         /\ IF fault
            THEN /\ download' = Set(download, t, "failed")
                 /\ OsFail(t, "Failed to create temporary directory")
                 /\ UNCHANGED tmp
            ELSE /\ download' = Set(download, t, "running")
                 /\ tmp' = Set(tmp, t, MkTmp("none", NoDir))
                 /\ pc' = Set(pc, t, "dl_send")
                 /\ UNCHANGED resp
    /\ UNCHANGED <<dlFrame, dst>>

\* client.get(url).send().await, response.status()
DlSend(t) ==
    /\ pc[t] = "dl_send"
    /\ \E fault \in FaultChoices :
         DlStep(t, fault,
                IF server.status = "200" THEN "ok"
                ELSE "Failed to download image: HTTP status",
                "dl_chunk", tmp[t])
    /\ UNCHANGED dlFrame

\* File::create(tarball_path), then the loop over response.chunk(): the body
\* arrives in two chunks
DlChunk(t) ==
    /\ pc[t] = "dl_chunk"
    /\ \E fault \in FaultChoices :
         IF tmp[t].tarball = "none"
         THEN DlStep(t, fault, "ok", "dl_chunk", MkTmp("partial", NoDir))
         ELSE DlStep(t, fault, "ok", "dl_tar", MkTmp("full", NoDir))
    /\ UNCHANGED dlFrame

\* create_dir_all(extracted), tar xzf
DlTar(t) ==
    /\ pc[t] = "dl_tar"
    /\ \E fault \in FaultChoices :
         DlStep(t, fault,
                IF server.tar_ok THEN "ok" ELSE "Failed to extract tarball",
                "dl_sha", MkTmp("full", server.content))
    /\ UNCHANGED dlFrame

\* sha256sum -c sha256sum.txt in the extracted directory
sha256sum_c(dir) == "sha256sum.txt" \in dir.files /\ dir.checks_ok

DlSha(t) ==
    /\ pc[t] = "dl_sha"
    /\ \E fault \in FaultChoices :
         DlStep(t, fault,
                IF sha256sum_c(tmp[t].extracted) THEN "ok"
                ELSE "Checksum verification failed",
                "dl_prune", tmp[t])
    /\ UNCHANGED dlFrame

\* the entries of the extracted directory that survive the removal of "the
\* files that are not listed in sha256sum.txt"
Pruned(dir) == {f \in dir.files : f \in dir.listed}

\* the identity check: hex::encode(os_image_hash) != hex_os_image_hash
IdentityOk(dir) == dir.sum = ImageHash

\* read sha256sum.txt, prune, check the identity hash, look for metadata.json
DlPruneCheckFirst(t) ==
    /\ pc[t] = "dl_prune"
    /\ LET extracted == tmp[t].extracted
           pruned == [extracted EXCEPT !.files = Pruned(extracted)]
       IN  \E fault \in FaultChoices :
             DlStep(t, fault,
                    IF ~IdentityOk(extracted)
                    THEN "os_image_hash does not match sha256sum of the sha256sum.txt"
                    ELSE IF ~metadata_exists(extracted)
                    THEN "metadata.json not found in the extracted archive"
                    ELSE "ok",
                    "dl_exists", MkTmp("full", pruned))
    /\ UNCHANGED dlFrame
DlPrune(t) ==
    /\ pc[t] = "dl_prune"
    /\ LET extracted == tmp[t].extracted
           pruned == [extracted EXCEPT !.files = Pruned(extracted)]
       IN  \E fault \in FaultChoices :
             DlStep(t, fault,
                    IF ~IdentityOk(extracted)
                    THEN "os_image_hash does not match sha256sum of the sha256sum.txt"
                    ELSE IF ~metadata_exists(pruned)
                    THEN "metadata.json not found in the extracted archive"
                    ELSE "ok",
                    "dl_exists", MkTmp("full", pruned))
    /\ UNCHANGED dlFrame

\* dst_dir.exists()
DlExists(t) ==
    /\ pc[t] = "dl_exists"
    /\ pc' = Set(pc, t, IF dst.exists THEN "dl_remove" ELSE "dl_rename")
    /\ UNCHANGED <<dlFrame, dst, tmp, faults, resp, download, touched>>

\* what a failing remove_dir_all may leave of the entries
PartlyRemoved(files) == {files} \cup {files \ {f} : f \in files}

\* fs_err::remove_dir_all(dst_dir)
DlRemove(t) ==
    /\ pc[t] = "dl_remove"
    /\ \E fault \in FaultChoices :
         /\ Inject(fault)
         /\ IF ~dst.exists
            THEN /\ ~fault
                 /\ DlFail(t, "Failed to remove destination directory")
                 /\ UNCHANGED <<dst, touched>>
            ELSE IF fault
            THEN /\ \E kept \in PartlyRemoved(dst.files) :
                      /\ dst' = [dst EXCEPT !.files = kept]
                      /\ touched' = Set(touched, t, touched[t] \/ kept # dst.files)
                 /\ DlFail(t, "Failed to remove destination directory")
            ELSE /\ dst' = NoDir
                 /\ touched' = Set(touched, t, TRUE)
                 /\ pc' = Set(pc, t, "dl_rename")
                 /\ UNCHANGED <<tmp, resp, download>>
    /\ UNCHANGED dlFrame

\* rename(2) of a directory: the target is absent or an empty directory
rename_allowed(target) == ~target.exists \/ target.files = {}

\* create_dir_all(dst_dir_parent), fs_err::rename(extracted_dir, dst_dir),
\* Ok(()) and the drop of the temp directory
DlRename(t) ==
    /\ pc[t] = "dl_rename"
    /\ \E fault \in FaultChoices :
         /\ Inject(fault)
         /\ IF fault \/ ~rename_allowed(dst)
            THEN /\ DlFail(t, "Failed to move extracted files to destination directory")
                 /\ UNCHANGED <<dst, touched>>
            ELSE /\ dst' = tmp[t].extracted
                 /\ touched' = Set(touched, t, TRUE)
                 /\ tmp' = Set(tmp, t, NoTmp)
                 /\ download' = Set(download, t, "ok")
                 /\ pc' = Set(pc, t, "read_meta")
                 /\ UNCHANGED resp
    /\ UNCHANGED dlFrame

\* the await points of download_image: send, File::create / chunk /
\* write_all, tar, sha256sum
AwaitPointsWithRename == {"dl_send", "dl_chunk", "dl_tar", "dl_sha", "dl_rename"}
AwaitPoints == {"dl_send", "dl_chunk", "dl_tar", "dl_sha"}

\* tokio::time::timeout elapses: the download future is dropped where it is
\* suspended, and with it the temp directory
Timeout(t) ==
    /\ pc[t] \in AwaitPoints
    /\ tmp' = Set(tmp, t, NoTmp)
    /\ download' = Set(download, t, "timeout")
    /\ OsFail(t, "Download image timeout")
    /\ UNCHANGED <<dlFrame, dst, faults, touched>>


(***************************************************************************)
(* Expected measurements: compute_measurement_details and the cache        *)
(***************************************************************************)
mrFrame == <<fixedVars, dst, tmp, debug, details, att, download, touched>>

\* fs_err::read_to_string(metadata_path) and its parse; then the debug path
\* computes and the other path asks the cache
ReadMetaUncached(t) ==
    /\ pc[t] = "read_meta"
    /\ \E fault \in FaultChoices :
         /\ Inject(fault)
         /\ IF fault \/ ~metadata_exists(dst)
            THEN OsFail(t, "Failed to read image metadata")
            ELSE /\ pc' = Set(pc, t, "compute")
                 /\ UNCHANGED resp
    /\ UNCHANGED <<mrFrame, cacheFile, cacheTmp, mrs, contents, lastStore>>
ReadMetaCached(t) ==
    /\ pc[t] = "read_meta"
    /\ \E fault \in FaultChoices :
         /\ Inject(fault)
         /\ IF fault \/ ~metadata_exists(dst)
            THEN OsFail(t, "Failed to read image metadata")
            ELSE /\ pc' = Set(pc, t, "ld_exists")
                 /\ UNCHANGED resp
    /\ UNCHANGED <<mrFrame, cacheFile, cacheTmp, mrs, contents, lastStore>>
ReadMeta(t) ==
    /\ pc[t] = "read_meta"
    /\ \E fault \in FaultChoices :
         /\ Inject(fault)
         /\ IF fault \/ ~metadata_exists(dst)
            THEN OsFail(t, "Failed to read image metadata")
            ELSE /\ pc' = Set(pc, t, IF debug[t] THEN "compute" ELSE "ld_exists")
                 /\ UNCHANGED resp
    /\ UNCHANGED <<mrFrame, cacheFile, cacheTmp, mrs, contents, lastStore>>

\* the measurement engine reads firmware, kernel and initrd of the image
image_readable(dir) == metadata_exists(dir) /\ "kernel" \in dir.files

\* compute_measurement_details / compute_measurements
Compute(t) ==
    /\ pc[t] = "compute"
    /\ \E fault \in FaultChoices :
         /\ Inject(fault)
         /\ IF fault \/ ~image_readable(dst)
            THEN /\ OsFail(t, "Failed to compute expected MRs")
                 /\ UNCHANGED mrs
            ELSE /\ mrs' = Set(mrs, t, ExpectedMrs)
                 /\ pc' = Set(pc, t, IF debug[t] THEN "compare" ELSE "st_create")
                 /\ UNCHANGED resp
    /\ UNCHANGED <<mrFrame, cacheFile, cacheTmp, contents, lastStore>>

\* load_measurements_from_cache: path.exists()
LdExists(t) ==
    /\ pc[t] = "ld_exists"
    /\ pc' = Set(pc, t, IF cacheFile.bytes = "absent" THEN "compute" ELSE "ld_read")
    /\ UNCHANGED <<mrFrame, cacheFile, cacheTmp, faults, mrs, contents, resp,
                   lastStore>>

\* load_measurements_from_cache: fs_err::read(&path); an error is a miss
LdRead(t) ==
    /\ pc[t] = "ld_read"
    /\ \E fault \in FaultChoices :
         /\ Inject(fault)
         /\ IF fault \/ cacheFile.bytes = "absent"
            THEN /\ pc' = Set(pc, t, "compute")
                 /\ UNCHANGED contents
            ELSE /\ contents' = Set(contents, t, cacheFile)
                 /\ pc' = Set(pc, t, "ld_parse")
    /\ UNCHANGED <<mrFrame, cacheFile, cacheTmp, mrs, resp, lastStore>>

\* serde_json::from_slice accepts a whole entry only
parses(file) == file.bytes = "complete"

\* load_measurements_from_cache: the parse and the version test, Some or None
cache_hit_any_version(file) == parses(file)
cache_hit(file) == parses(file) /\ file.version = MEASUREMENT_CACHE_VERSION

LdParse(t) ==
    /\ pc[t] = "ld_parse"
    /\ IF cache_hit(contents[t])
       THEN /\ mrs' = Set(mrs, t, contents[t].measurements)
            /\ pc' = Set(pc, t, "compare")
       ELSE /\ pc' = Set(pc, t, "compute")
            /\ UNCHANGED mrs
    /\ contents' = Set(contents, t, NoFile)
    /\ UNCHANGED <<mrFrame, cacheFile, cacheTmp, faults, resp, lastStore>>

\* store_measurements_in_cache: create_dir_all, NamedTempFile::new_in; an
\* error of the store is logged and the measurements are used
StCreate(t) ==
    /\ pc[t] = "st_create"
    /\ \E fault \in FaultChoices :
         /\ Inject(fault)
         /\ IF fault
            THEN /\ pc' = Set(pc, t, "compare")
                 /\ UNCHANGED cacheTmp
            ELSE /\ cacheTmp' = Set(cacheTmp, t, MkFile("empty", 0, NoMrs))
                 /\ pc' = Set(pc, t, "st_write")
    /\ UNCHANGED <<mrFrame, cacheFile, mrs, contents, resp, lastStore>>

\* serde_json::to_writer(tmp.as_file_mut(), &entry): the entry reaches the
\* temp file in two writes
StWriteOnce(t) ==
    /\ pc[t] = "st_write"
    /\ cacheTmp' = Set(cacheTmp, t, MkFile("partial", 0, NoMrs))
    /\ pc' = Set(pc, t, "st_persist")
    /\ UNCHANGED <<mrFrame, cacheFile, mrs, contents, resp, lastStore, faults>>
StWrite(t) ==
    /\ pc[t] = "st_write"
    /\ \E fault \in FaultChoices :
         /\ Inject(fault)
         /\ IF fault
            THEN /\ cacheTmp' = Set(cacheTmp, t, NoFile)
                 /\ pc' = Set(pc, t, "compare")
            ELSE IF cacheTmp[t].bytes = "empty"
            THEN /\ cacheTmp' = Set(cacheTmp, t, MkFile("partial", 0, NoMrs))
                 /\ UNCHANGED pc
            ELSE /\ cacheTmp' = Set(cacheTmp, t, CachedMeasurement(mrs[t]))
                 /\ pc' = Set(pc, t, "st_persist")
    /\ UNCHANGED <<mrFrame, cacheFile, mrs, contents, resp, lastStore>>

\* sync_all, tmp.persist(&path): the rename over the final path
StPersist(t) ==
    /\ pc[t] = "st_persist"
    /\ \E fault \in FaultChoices :
         /\ Inject(fault)
         /\ IF fault
            THEN UNCHANGED <<cacheFile, lastStore>>
            ELSE /\ cacheFile' = cacheTmp[t]
                 /\ lastStore' = t
         /\ cacheTmp' = Set(cacheTmp, t, NoFile)
         /\ pc' = Set(pc, t, "compare")
    /\ UNCHANGED <<mrFrame, mrs, contents, resp>>

(***************************************************************************)
(* The comparison, and the end of verify                                   *)
(***************************************************************************)
endFrame ==
    <<fixedVars, dst, tmp, cacheFile, cacheTmp, faults, debug, mrs, contents,
      download, touched, lastStore>>

\* verify_os_image_hash from "let expected_mrs" on, then
\* details.os_image_hash_verified = true
Compare(t) ==
    /\ pc[t] = "compare"
    /\ \E a \in AttestationsOf(guests) :
         /\ att' = Set(att, t, a)
         /\ IF compare_mrs(mrs[t], a) # "ok"
            THEN OsFail(t, compare_mrs(mrs[t], a)) /\ UNCHANGED details
            ELSE /\ details' = Set(details, t, mark_os_image_hash_verified(details[t]))
                 /\ pc' = Set(pc, t, "app_info")
                 /\ UNCHANGED resp
    /\ UNCHANGED endFrame

\* verified_attestation.decode_app_info(false), and the final response
AppInfo(t) ==
    /\ pc[t] = "app_info"
    /\ \E decoded \in BOOLEAN :
         IF decoded
         THEN /\ details' = Set(details, t, mark_event_log_verified(details[t]))
              /\ Respond(t, verified(mark_event_log_verified(details[t])))
         ELSE /\ Respond(t, event_log_failed(details[t]))
              /\ UNCHANGED details
    /\ UNCHANGED <<endFrame, att>>

(***************************************************************************)
(* The one-shot mode of the CLI                                            *)
(***************************************************************************)
oneshotFrame ==
    <<replayVars, mrVars, clients, guests, server, dst, tmp, cacheFile,
      cacheTmp, pc, debug, details, mrs, contents, att, resp, download,
      touched, lastStore, os_request>>

\* run_oneshot up to the verifier: read the file and parse it as a
\* VerificationRequest; main exits with 1 when run_oneshot returns Err
OneshotRead ==
    /\ os_stage = "start"
    /\ IF os_request = "request"
       THEN os_stage' = "verify" /\ UNCHANGED os_exit
       ELSE os_stage' = "exited" /\ os_exit' = 1
    /\ UNCHANGED <<oneshotFrame, faults, os_output>>

\* verify returned Err: the answer of the model is that of verify_cvm
verify_returned_err(r) == r = verify_cvm_fallback

\* the exit code of a response that was reported
exit_code(r) == IF ~r.is_valid THEN 1 ELSE 0

\* run_oneshot from the result of verify on: Err is returned to main, which
\* exits with 1; a response is written to <file>.verification.json and the
\* process exits with 1 when it is not valid, with 0 from main otherwise
OneshotReport ==
    /\ os_stage = "verify"
    /\ pc["t1"] = "done"
    /\ os_stage' = "exited"
    /\ IF verify_returned_err(resp["t1"])
       THEN os_exit' = 1 /\ UNCHANGED <<os_output, faults>>
       ELSE \E fault \in FaultChoices :
              /\ Inject(fault)
              /\ IF fault
                 THEN os_exit' = 1 /\ UNCHANGED os_output
                 ELSE /\ os_output' = resp["t1"]
                      /\ os_exit' = exit_code(resp["t1"])
    /\ UNCHANGED oneshotFrame

(***************************************************************************)
(* Specifications                                                          *)
(***************************************************************************)
Next ==
    \E t \in Tasks :
        \/ Verify(t)
        \/ OsImage(t)
        \/ DlBegin(t)
        \/ DlSend(t)
        \/ DlChunk(t)
        \/ DlTar(t)
        \/ DlSha(t)
        \/ DlPrune(t)
        \/ DlExists(t)
        \/ DlRemove(t)
        \/ DlRename(t)
        \/ Timeout(t)
        \/ ReadMeta(t)
        \/ Compute(t)
        \/ LdExists(t)
        \/ LdRead(t)
        \/ LdParse(t)
        \/ StCreate(t)
        \/ StWrite(t)
        \/ StPersist(t)
        \/ Compare(t)
        \/ AppInfo(t)

\* concurrent verifications of one guest
Init == ReplayIdle /\ MrIdle /\ VerifierInitAll
Spec == Init /\ [][Next]_vars

\* one verification of any request
InitVerify == ReplayIdle /\ MrIdle /\ VerifierInitOne
SpecVerify == InitVerify /\ [][Next]_vars

\* replay_event_logs on any event log
InitReplay == ReplayInit /\ MrIdle /\ VerifierIdle
NextReplay ==
    /\ ReplayCall
    /\ UNCHANGED <<mrVars, verifierVars>>
SpecReplay == InitReplay /\ [][NextReplay]_vars

\* verifications that run one after the other: a request is handled while no
\* other request is being handled
Sequential(t) == \A u \in Tasks \ {t} : pc[u] \in {"idle", "done"}
InitSeq == ReplayIdle /\ MrIdle /\ VerifierInitAll
NextSeq ==
    \E t \in Tasks :
        /\ Sequential(t)
        /\ \/ Verify(t)
           \/ OsImage(t)
           \/ DlBegin(t)
           \/ DlSend(t)
           \/ DlChunk(t)
           \/ DlTar(t)
           \/ DlSha(t)
           \/ DlPrune(t)
           \/ DlExists(t)
           \/ DlRemove(t)
           \/ DlRename(t)
           \/ Timeout(t)
           \/ ReadMeta(t)
           \/ Compute(t)
           \/ LdExists(t)
           \/ LdRead(t)
           \/ LdParse(t)
           \/ StCreate(t)
           \/ StWrite(t)
           \/ StPersist(t)
           \/ Compare(t)
           \/ AppInfo(t)
SpecSeq == InitSeq /\ [][NextSeq]_vars

\* between two verifications, after one that succeeded without debug, a file
\* of images/<hash>/ is deleted from outside
DeleteFile ==
    /\ \A t \in Tasks : pc[t] \in {"idle", "done"}
    /\ \E t \in Tasks : pc[t] = "idle"
    /\ \E u \in Tasks : pc[u] = "done" /\ resp[u].is_valid /\ ~debug[u]
    /\ dst.exists
    /\ \E f \in dst.files : dst' = [dst EXCEPT !.files = @ \ {f}]
    /\ UNCHANGED <<fixedVars, tmp, cacheFile, cacheTmp, faults, pc, debug,
                   details, mrs, contents, att, resp, download, touched,
                   lastStore>>

\* a verification, the deletion of files of the image, and the same request
\* again
InitRerun == ReplayIdle /\ MrIdle /\ VerifierInitAll
NextRerun ==
    \/ NextSeq
    \/ DeleteFile
SpecRerun == InitRerun /\ [][NextRerun]_vars

\* Machine::versioned_options on any machine
InitOptions == ReplayIdle /\ OptionsInit /\ TdvfIdle /\ AuxIdle /\ VerifierIdle
NextOptions ==
    /\ OptionsCall
    /\ UNCHANGED <<replayVars, tdvfVars, auxVars, verifierVars>>
SpecOptions == InitOptions /\ [][NextOptions]_vars

\* the process started with --verify <file>; verifier.verify(&request) takes
\* the steps of verify
OneshotVerify ==
    /\ os_stage = "verify"
    /\ Next
InitOneshot == ReplayIdle /\ MrIdle /\ VerifierInitOneshot
NextOneshot ==
    \/ OneshotRead
    \/ OneshotVerify
    \/ OneshotReport
SpecOneshot == InitOneshot /\ [][NextOneshot]_vars

\* the end of verify_os_image_hash on any attestation
InitMismatch ==
    /\ ReplayIdle /\ OptionsIdle /\ TdvfIdle /\ VerifierIdle
    /\ MismatchInit /\ MrtdIdle /\ HobIdle /\ Rtmr0Idle
NextMismatch ==
    /\ MismatchCall
    /\ UNCHANGED <<replayVars, optionsVars, tdvfVars, mrtdVars, hobVars, rtmr0Vars, verifierVars>>
SpecMismatch == InitMismatch /\ [][NextMismatch]_vars

\* compute_mrtd in both orders on any sections
InitMrtd ==
    /\ ReplayIdle /\ OptionsIdle /\ TdvfIdle /\ VerifierIdle
    /\ MismatchIdle /\ MrtdInit /\ HobIdle /\ Rtmr0Idle
NextMrtd ==
    /\ MrtdCall
    /\ UNCHANGED <<replayVars, optionsVars, tdvfVars, mismatchVars, hobVars, rtmr0Vars, verifierVars>>
SpecMrtd == InitMrtd /\ [][NextMrtd]_vars

\* measure_td_hob on any sections and memory size
InitHob ==
    /\ ReplayIdle /\ OptionsIdle /\ TdvfIdle /\ VerifierIdle
    /\ MismatchIdle /\ MrtdIdle /\ HobInit /\ Rtmr0Idle
NextHob ==
    /\ HobCall
    /\ UNCHANGED <<replayVars, optionsVars, tdvfVars, mismatchVars, mrtdVars, rtmr0Vars, verifierVars>>
SpecHob == InitHob /\ [][NextHob]_vars

\* the RTMR0 of measure_with_logs on any machine
InitRtmr0 ==
    /\ ReplayIdle /\ OptionsIdle /\ TdvfIdle /\ VerifierIdle
    /\ MismatchIdle /\ MrtdIdle /\ HobIdle /\ Rtmr0Init
NextRtmr0 ==
    /\ Rtmr0Call
    /\ UNCHANGED <<replayVars, optionsVars, tdvfVars, mismatchVars, mrtdVars, hobVars, verifierVars>>
SpecRtmr0 == InitRtmr0 /\ [][NextRtmr0]_vars

\* Tdvf::parse on the firmware images
InitTdvf == ReplayIdle /\ OptionsIdle /\ TdvfInit /\ AuxIdle /\ VerifierIdle
NextTdvf ==
    \/ TdvfParseFooter /\ UNCHANGED verifierVars
    \/ TdvfParseEntry /\ UNCHANGED verifierVars
    \/ TdvfParseMetadata /\ UNCHANGED verifierVars
    \/ TdvfComputeMrtd /\ UNCHANGED verifierVars
SpecTdvf == InitTdvf /\ [][NextTdvf]_vars


(***************************************************************************)
(* Properties                                                              *)
(***************************************************************************)
\* the task has compared an attestation (verify_os_image_hash reached the
\* parse of the event log)
Compared(t) == att[t] # NoAttestation

MrsDiffer(m, report) ==
    \/ m.mrtd # report.mr_td
    \/ m.rtmr0 # report.rt_mr0
    \/ m.rtmr1 # report.rt_mr1
    \/ m.rtmr2 # report.rt_mr2

\* C1: a response is valid only if the expected measurements (computed or
\* loaded from the cache) equal the quote's mrtd, rt_mr0, rt_mr1 and rt_mr2;
\* if one of the four differs the response is invalid and
\* os_image_hash_verified is false.
C1_MrsDecide ==
    \A t \in Tasks :
        /\ resp[t].is_valid => Compared(t) /\ ~MrsDiffer(mrs[t], att[t].report)
        /\ Compared(t) /\ MrsDiffer(mrs[t], att[t].report)
             => /\ pc[t] = "done"
                /\ resp[t].produced
                /\ ~resp[t].is_valid
                /\ ~resp[t].details.os_image_hash_verified
                /\ ~details[t].os_image_hash_verified

\* C1 witness: only rt_mr2 differs, RTMR3 agrees, and the response names it
C1_Witness ==
    \E t \in Tasks :
        /\ resp[t].produced
        /\ mrs[t] = ExpectedMrs
        /\ att[t].report.mr_td = mrs[t].mrtd
        /\ att[t].report.rt_mr0 = mrs[t].rtmr0
        /\ att[t].report.rt_mr1 = mrs[t].rtmr1
        /\ att[t].report.rt_mr2 # mrs[t].rtmr2
        /\ resp[t].reason.cause = "RTMR2 mismatch"
        /\ ~resp[t].is_valid

\* the RTMR3 value replayed from a compared event log differs from the quote's
Rtmr3Differs(a) ==
    /\ a.log_parses
    /\ replay_event_logs(a.event_log).ok
    /\ replay_event_logs(a.event_log).rtmrs[3] # a.report.rt_mr3

\* C2: when the RTMR3 replayed from the guest event log differs from the
\* quote's rt_mr3, the response is invalid with reason "RTMR3 mismatch", also
\* when mrtd/rtmr0..2 differ as well.
C2_Rtmr3First ==
    \A t \in Tasks :
        Compared(t) /\ Rtmr3Differs(att[t])
            => /\ pc[t] = "done"
               /\ ~resp[t].is_valid
               /\ resp[t].reason.present
               /\ resp[t].reason.stage = "OS image hash verification failed"
               /\ resp[t].reason.cause = "RTMR3 mismatch"

\* C2 witness: both comparisons would fail, and RTMR3 decides the reason
C2_Witness ==
    \E t \in Tasks :
        /\ Compared(t)
        /\ Rtmr3Differs(att[t])
        /\ Len(att[t].event_log) > 0
        /\ MrsDiffer(mrs[t], att[t].report)
        /\ resp[t].reason.cause = "RTMR3 mismatch"

\* C3: after download_image returns success, images/<hash>/ contains
\* sha256sum.txt and the SHA-256 of its bytes equals the hash.
C3_BundleIdentity ==
    \A t \in Tasks :
        download[t] = "ok" /\ clients = {t}
            => /\ dst.exists
               /\ "sha256sum.txt" \in dst.files
               /\ dst.sum = ImageHash

HasInvalidEntry(a) ==
    /\ a.log_parses
    /\ \E k \in 1..Len(a.event_log) : ~validate(a.event_log[k])

\* C4: an event log with an entry (of any imr) that fails validation makes
\* replay_event_logs return an error and the response invalid; no valid
\* response is produced for such a log.
C4_InvalidEntryFails ==
    \A t \in Tasks :
        /\ Compared(t) /\ HasInvalidEntry(att[t])
             => /\ ~replay_event_logs(att[t].event_log).ok
                /\ pc[t] = "done"
                /\ ~resp[t].is_valid
                /\ resp[t].reason.cause
                     = "Failed to replay event logs for mismatch analysis"
        /\ resp[t].is_valid => Compared(t) /\ ~HasInvalidEntry(att[t])

\* C4 witness: the invalid entry has an imr that is no register, after an
\* intact RTMR3 entry that agrees with the quote
C4_Witness ==
    \E t \in Tasks :
        /\ resp[t].produced
        /\ Len(att[t].event_log) = 2
        /\ att[t].event_log[1].imr = 3
        /\ att[t].event_log[1].intact
        /\ att[t].event_log[2].imr = MaxImr
        /\ ~att[t].event_log[2].intact
        /\ att[t].report.rt_mr3
             = Sha384Extend(ZeroRegister, att[t].event_log[1].digest)
        /\ ~MrsDiffer(mrs[t], att[t].report)
        /\ ~resp[t].is_valid

\* C5: in every response, is_valid holds exactly when the three flags are all
\* true and exactly when reason is absent; event_log_verified implies
\* os_image_hash_verified, which implies quote_verified.
C5_FlagsAgree ==
    \A t \in Tasks :
        resp[t].produced =>
            LET d == resp[t].details
            IN  /\ resp[t].is_valid
                     <=> (d.quote_verified /\ d.os_image_hash_verified
                          /\ d.event_log_verified)
                /\ resp[t].is_valid <=> ~resp[t].reason.present
                /\ d.event_log_verified => d.os_image_hash_verified
                /\ d.os_image_hash_verified => d.quote_verified

\* C5 witness: decode_app_info failed after the measurements agreed
C5_Witness ==
    \E t \in Tasks :
        /\ resp[t].produced
        /\ resp[t].reason.stage = "Event log verification failed"
        /\ resp[t].details = MkDetails(TRUE, FALSE, TRUE)

\* the digests of the entries with imr = i, in the order of the log
RECURSIVE DigestsOfImr(_, _)
DigestsOfImr(eventlog, i) ==
    IF eventlog = <<>> THEN <<>>
    ELSE IF Head(eventlog).imr = i
    THEN <<Head(eventlog).digest>> \o DigestsOfImr(Tail(eventlog), i)
    ELSE DigestsOfImr(Tail(eventlog), i)

\* the fold SHA384(current || digest) over a sequence of digests
RECURSIVE FoldDigests(_, _)
FoldDigests(register, digests) ==
    IF digests = <<>> THEN register
    ELSE FoldDigests(Sha384Extend(register, Head(digests)), Tail(digests))

\* the 0-based positions of the entries with imr = i
PositionsOfImr(eventlog, i) == {k - 1 : k \in {j \in 1..Len(eventlog) : eventlog[j].imr = i}}

IsIncreasing(seq) == \A j \in 1..(Len(seq) - 1) : seq[j] < seq[j + 1]

\* C6: for every event log and every i in 0..3 the register computed for i is
\* the fold from the zero register over the entries with imr = i in their
\* order; event_indices[i] lists their positions in increasing order; entries
\* with an imr outside 0..3 change no register.
C6_ReplayIsFold ==
    /\ rp_result # NoResult
         => (rp_result.ok <=> \A k \in 1..Len(rp_eventlog) : rp_eventlog[k].intact)
    /\ rp_result.ok =>
         /\ \A i \in 0..3 :
              /\ rp_result.rtmrs[i]
                   = FoldDigests(ZeroRegister, DigestsOfImr(rp_eventlog, i))
              /\ IsIncreasing(rp_result.event_indices[i])
              /\ {rp_result.event_indices[i][j] :
                    j \in 1..Len(rp_result.event_indices[i])}
                   = PositionsOfImr(rp_eventlog, i)
              /\ Len(rp_result.event_indices[i])
                   = Cardinality(PositionsOfImr(rp_eventlog, i))
         /\ rp_result.rtmrs
              = replay_event_logs(SelectSeq(rp_eventlog,
                                            LAMBDA e : e.imr \in 0..3)).rtmrs

\* C6 witness: two entries of RTMR1 around an entry that is no register
C6_Witness ==
    /\ rp_result.ok
    /\ Len(rp_eventlog) = 3
    /\ rp_eventlog[1].imr = 1 /\ rp_eventlog[1].digest = 1
    /\ rp_eventlog[2].imr = MaxImr
    /\ rp_eventlog[3].imr = 1 /\ rp_eventlog[3].digest = 2
    /\ rp_result.event_indices[1] = <<0, 2>>
    /\ rp_result.rtmrs[0] = ZeroRegister

\* C7: whenever download_image returns an error, images/<hash>/ is as it was
\* before the call and the temp directory no longer exists.
C7_FailureLeavesFinalPath ==
    \A t \in Tasks :
        download[t] = "failed" => ~touched[t] /\ ~tmp[t].exists

ServerValid ==
    /\ server.status = "200"
    /\ server.tar_ok
    /\ sha256sum_c(server.content)
    /\ server.content.sum = ImageHash
    /\ {"metadata.json", "kernel"} \subseteq server.content.listed

\* C9: when two verifications download the same valid hash at the same time,
\* under every interleaving each call returns success and images/<hash>/ ends
\* up holding one complete verified bundle.
C9_ConcurrentDownloadsSucceed ==
    faults = 0 /\ ServerValid
        => \A t \in Tasks :
             /\ download[t] # "failed"
             /\ download[t] = "ok" /\ (\A u \in Tasks : download[u] # "running")
                  => image_readable(dst)

\* C10: a load of the measurement cache reads nothing, what was there before,
\* or a completely written entry, never a partly written one; the final path
\* never holds a partly written entry, and when all writers have finished it
\* holds the entry of the last writer and no temp file is left.
C10_CacheAtomic ==
    /\ cacheFile.bytes \notin {"empty", "partial"}
    /\ \A t \in Tasks :
         /\ contents[t].bytes \notin {"empty", "partial"}
         /\ mrs[t] \in {NoMrs, ExpectedMrs}
    /\ lastStore # "none" => cacheFile = CachedMeasurement(mrs[lastStore])
    /\ (\A t \in Tasks : pc[t] = "done") => \A t \in Tasks : cacheTmp[t] = NoFile

\* C10 witness: one writer is in the middle of its temp file while the final
\* path holds the entry the other writer persisted
C10_Witness ==
    /\ lastStore = "t2"
    /\ cacheTmp["t1"].bytes = "partial"
    /\ cacheFile = CachedMeasurement(ExpectedMrs)

\* the positions of load_measurements_from_cache
LoadPoints == {"ld_exists", "ld_read", "ld_parse"}

\* C11: once a store to the key has succeeded, a load of the key that meets
\* no I/O error returns Some(m), m being the measurements that were stored
\* (the last store's, when there was another one).
C11_CacheRoundTrip ==
    [][\A t \in Tasks :
         (/\ lastStore # "none"
          /\ pc[t] \in LoadPoints
          /\ pc'[t] # pc[t]
          /\ faults' = faults)
            => /\ pc'[t] \in {"ld_read", "ld_parse", "compare"}
               /\ pc'[t] = "compare"
                    => /\ mrs'[t] = mrs[lastStore]
                       /\ mrs'[t] # NoMrs
                       /\ resp'[t] = NoResponse]_vars

\* C11 witness: a verification has read the entry that another one stored
\* and finished before
C11_Witness ==
    \E t \in Tasks :
        /\ lastStore \notin {"none", t}
        /\ pc[lastStore] = "done"
        /\ pc[t] = "ld_parse"
        /\ contents[t] = CachedMeasurement(mrs[lastStore])
        /\ mrs[lastStore] = ExpectedMrs

\* the file is a whole entry of the current version
CurrentEntry(file) ==
    /\ file.bytes = "complete"
    /\ file.version = MEASUREMENT_CACHE_VERSION

\* the measurements of a verification that is past load_or_compute_measurements
Obtained(t) ==
    /\ ~debug[t]
    /\ pc[t] \in {"compare", "app_info", "done"}
    /\ mrs[t] # NoMrs

StorePoints == {"st_create", "st_write", "st_persist"}

\* C13: a verification with debug = true never stands in the load or the
\* store of the measurement cache, holds no bytes read from it and no temp
\* file for it, and changes nothing of it; its expected measurements are set
\* by the computation only, also when an entry of the cache would have hit.
C13_DebugBypassesCache ==
    /\ [](\A t \in Tasks :
            debug[t] /\ pc[t] # "idle"
                => /\ pc[t] \notin LoadPoints \cup StorePoints
                   /\ cacheTmp[t] = NoFile
                   /\ contents[t] = NoFile
                   /\ lastStore # t)
    /\ [][\A t \in Tasks :
            (debug'[t] /\ pc'[t] # pc[t])
               => /\ cacheFile' = cacheFile
                  /\ cacheTmp' = cacheTmp
                  /\ mrs'[t] # mrs[t]
                       => pc[t] = "compute" /\ mrs'[t] = ExpectedMrs]_vars

\* C13 witness: a debug verification succeeded on computed measurements
\* while the cache held an entry that would have hit, and nothing was stored
C13_Witness ==
    \E t \in Tasks :
        /\ debug[t]
        /\ pc[t] = "done"
        /\ resp[t].is_valid
        /\ mrs[t] = ExpectedMrs
        /\ cacheFile = CachedMeasurement(ExpectedMrs)
        /\ lastStore = "none"

\* the steps of a verification that depend on the request and on DCAP alone
\* went well: the request decoded, the quote verified, the report is a TD 1.0
\* report, the app info decoded
OraclesPass(t) ==
    /\ resp[t].details.quote_verified
    /\ resp[t].reason.cause # "Failed to decode TD report"
    /\ resp[t].reason.stage # "Event log verification failed"

\* the verification of t is the second one: u's came first, computed the
\* measurements and stored them, and both met no I/O error
Rerun(t, u) ==
    /\ t # u
    /\ lastStore = u
    /\ pc[u] = "done" /\ resp[u].is_valid /\ ~debug[u]
    /\ pc[t] = "done" /\ ~debug[t]
    /\ faults = 0
    /\ OraclesPass(t)

C15_AtMostOneDownload ==
    /\ [](\A t \in Tasks : download[t] = "ok" => metadata_exists(dst))
    /\ [][\A t \in Tasks :
            (pc[t] = "os_image" /\ pc'[t] = "dl_begin")
               => /\ ~metadata_exists(dst)
                  /\ \A u \in Tasks : download[u] # "ok"]_vars

\* C15 witness: a verification that came after a successful download found
\* the image and succeeded without a download
C15_Witness ==
    \E t, u \in Tasks :
        /\ t # u
        /\ pc[t] = "done" /\ download[t] = "ok"
        /\ pc[u] = "done" /\ download[u] = "none"
        /\ resp[u].is_valid

\* two verifications of the same request with the same collaborators: the
\* same debug flag, the same outcome of the steps that depend on the request
\* and on DCAP alone, no I/O error and no timeout
SameRequest(t, u) ==
    /\ t # u
    /\ pc[t] = "done" /\ pc[u] = "done"
    /\ debug[t] = debug[u]
    /\ OraclesPass(t) /\ OraclesPass(u)
    /\ faults = 0
    /\ download[t] # "timeout" /\ download[u] # "timeout"

\* C16: two successive verifications of the same request return the same
\* response, whether the first one downloaded the image and computed and
\* stored the measurements or found them; when both obtained measurements
\* they are the same.
C16_SameResponse ==
    \A t, u \in Tasks :
        SameRequest(t, u)
            => /\ resp[t] = resp[u]
               /\ (mrs[t] # NoMrs /\ mrs[u] # NoMrs) => mrs[t] = mrs[u]

\* C16 witness: the first verification downloaded, computed and stored, the
\* second one found the image and the entry, and both answers are valid
C16_Witness ==
    \E t, u \in Tasks :
        /\ SameRequest(t, u)
        /\ download[t] = "ok" /\ lastStore = t
        /\ download[u] = "none"
        /\ resp[t].is_valid /\ resp[u].is_valid

\* the text of an unsigned integer as str::parse::<u32> reads it: digits,
\* with an optional "+" in front
NumberText(p) ==
    LET digits == IF Len(p) > 0 /\ p[1] = "+" THEN Tail(p) ELSE p
    IN  /\ Len(digits) > 0
        /\ \A k \in 1..Len(digits) : digits[k] \in Digit

\* the number a text of digits denotes, from its last digit
RECURSIVE NumberOf(_)
NumberOf(p) ==
    IF p = <<>> THEN 0
    ELSE IF p[Len(p)] = "+" THEN 0
    ELSE NumberOf(SubSeq(p, 1, Len(p) - 1)) * 10 + DigitValue(p[Len(p)])

\* v is three unsigned integers separated by two dots, at positions i and j
ThreeNumbersAt(v, i, j) ==
    /\ i < j
    /\ {k \in 1..Len(v) : v[k] = "."} = {i, j}
    /\ NumberText(SubSeq(v, 1, i - 1))
    /\ NumberText(SubSeq(v, i + 1, j - 1))
    /\ NumberText(SubSeq(v, j + 1, Len(v)))

\* what versioned_options has to answer for machine m
OptionsAsSpecified(m, r) ==
    LET v == m.qemu_version.value
    IN  IF m.qemu_version.some /\ ~\E i, j \in 1..Len(v) : ThreeNumbersAt(v, i, j)
        THEN ~r.ok
        ELSE LET major ==
                   IF ~m.qemu_version.some THEN 9
                   ELSE LET i == CHOOSE i \in 1..Len(v) :
                                   \E j \in 1..Len(v) : ThreeNumbersAt(v, i, j)
                        IN  NumberOf(SubSeq(v, 1, i - 1))
             IN  IF major < 8 THEN ~r.ok
                 ELSE /\ r.ok
                      /\ r.pic = (IF m.pic.some THEN m.pic.value ELSE major = 8)
                      /\ r.two_pass_add_pages
                           = (IF m.two_pass_add_pages.some
                              THEN m.two_pass_add_pages.value ELSE major = 8)
                      /\ ~m.qemu_version.some => r.version = <<9, 1, 0>>

\* C17: versioned_options fails for every version below (8,0,0), also with
\* pic and two_pass_add_pages both given, and for every string that is not
\* three dot-separated unsigned integers; otherwise pic and two_pass_add_pages
\* are the given values or else the default of the version, true for major
\* version 8 and false from 9 on; no qemu_version counts as (9,1,0).
C17_VersionedOptions ==
    vo_result # NoOptions => OptionsAsSpecified(vo_machine, vo_result)

\* C17 witness: version 7.9.9 with both options given is refused
C17_Witness ==
    /\ vo_machine = Machine(Some(<<"7", ".", "9", ".", "9">>), Some(TRUE), Some(FALSE))
    /\ vo_result # NoOptions
    /\ ~vo_result.ok


\* -------------------------------------------------------------------------
\* Tdvf::parse
\* -------------------------------------------------------------------------

\* a section with aligned address and size, and a size not below the raw size
ValidSection(n) ==
    /\ n.memory_address % PAGE_SIZE = 0
    /\ n.memory_data_size % PAGE_SIZE = 0
    /\ n.memory_data_size >= n.raw_data_size

\* the number of sections of the descriptor the metadata entry points to
DescribedSections(shape) ==
    IF shape.tail = "descriptor first" THEN 1 ELSE shape.num_sections

\* C18: whenever parse returns Ok it returns exactly num_sections sections,
\* in the order of the descriptor, and each of them has a memory_address and
\* a memory_data_size that are multiples of 4096 and a memory_data_size of at
\* least raw_data_size; an image with one section that violates this is never
\* answered with Ok, and an answer other than Ok carries no section
C18_SectionsValid ==
    /\ tp_result.kind = "ok" =>
         /\ Len(tp_result.sections) = DescribedSections(tp_shape)
         /\ \A i \in 1..Len(tp_result.sections) :
               /\ ValidSection(SectionNumbers(tp_result.sections[i]))
               /\ (tp_shape.meta_raw = Exact /\ i <= Len(tp_shape.sections)) =>
                     SectionNumbers(tp_result.sections[i]) = tp_shape.sections[i]
    /\ ( /\ tp_pc = "returned"
         /\ tp_shape.meta_raw = Exact
         /\ \E i \in 1..Len(tp_shape.sections) :
               i <= tp_shape.num_sections /\ ~ValidSection(tp_shape.sections[i]) )
         => tp_result.kind # "ok"
    /\ tp_result.kind # "ok" => tp_result.sections = <<>>

\* parse returned two different sections
C18_Witness ==
    /\ tp_result.kind = "ok"
    /\ Len(tp_result.sections) = 2
    /\ tp_result.sections[1] # tp_result.sections[2]

\* the images of the cases of C19
Malformed(shape) ==
    \/ shape.keep # Exact /\ shape.keep < BYTES_AFTER_TABLE_FOOTER
    \/ shape.keep # Exact /\ shape.keep < BYTES_AFTER_TABLE_FOOTER + 18
    \/ shape.footer # "footer"
    \/ shape.tables_len = 60000
    \/ shape.keep = 50
    \/ shape.entries # <<>> /\ shape.entries[Len(shape.entries)].len = 60000
    \/ \A i \in 1..Len(shape.entries) : shape.entries[i].guid # "meta"
    \/ shape.meta_raw = 70000
    \/ shape.signature # <<84, 68, 86, 70>>
    \/ shape.version # 1
    \/ shape.meta_raw = 8
    \/ shape.meta_raw = 32
    \/ shape.meta_raw = 16 /\ shape.num_sections > 0

\* C19: parse never panics, and on an image that is too short, lacks the
\* footer GUID, has a table length or an entry length beyond the bytes there
\* are, has no TDX_METADATA_OFFSET entry, has a metadata offset beyond the
\* file, another signature or version, or ends inside the descriptor or a
\* section record, it returns, and what it returns is an error: every
\* iteration of its scan that does not return moves on to a lower offset
C19_ParseReturnsError ==
    /\ [](/\ tp_result.kind # "panic"
          /\ (tp_pc = "returned" /\ Malformed(tp_shape)) =>
                tp_result.kind = "err")
    /\ [][(Malformed(tp_shape) /\ tp_pc = "scan" /\ tp_pc' = "scan") =>
             tp_offset' < tp_offset]_vars

\* -------------------------------------------------------------------------
\* The one-shot mode
\* -------------------------------------------------------------------------

\* C20: in one-shot mode with a file that parses as a VerificationRequest,
\* when the process has exited the verification was run, its response, the
\* one the HTTP handler answers with, is in <file>.verification.json, and
\* the exit code is 0 when the response is valid and not 0 when it is not
C20_OneshotMirrorsHandler ==
    (os_stage = "exited" /\ os_request = "request") =>
        /\ resp["t1"].produced
        /\ os_output = resp["t1"]
        /\ (os_exit # 0) <=> ~resp["t1"].is_valid

\* -------------------------------------------------------------------------
\* The order of the steps of one verification
\* -------------------------------------------------------------------------

\* the step of verify a task stands at: the quote, the resolution of the
\* image, the measurement (cache load or computation), the cache store, the
\* replay and comparison, the application info, the response
Stage(p) ==
    CASE p = "idle" -> 0
      [] p \in {"os_image", "dl_begin", "dl_send", "dl_chunk", "dl_tar", "dl_sha",
                "dl_prune", "dl_exists", "dl_remove", "dl_rename"} -> 1
      [] p \in {"read_meta", "ld_exists", "ld_read", "ld_parse", "compute"} -> 2
      [] p \in {"st_create", "st_write", "st_persist"} -> 3
      [] p = "compare" -> 4
      [] p = "app_info" -> 5
      [] p = "done" -> 6

QuoteFailed(t) ==
    resp[t].produced /\ resp[t].reason.stage = "Quote verification failed"

\* C22: the steps of one verification never go back; a verification whose
\* quote failed answers is_valid=false with "Quote verification failed" and
\* has downloaded nothing, obtained no measurement and read or written no
\* cache file; the step that verifies the quote changes no file, and every
\* later step of a task is taken with quote_verified set
C22_QuoteFirst ==
    /\ [](\A t \in Tasks :
            QuoteFailed(t) =>
              /\ ~resp[t].is_valid
              /\ ~resp[t].details.quote_verified
              /\ download[t] = "none" /\ ~touched[t] /\ tmp[t] = NoTmp
              /\ mrs[t] = NoMrs /\ contents[t] = NoFile
              /\ cacheTmp[t] = NoFile /\ lastStore # t)
    /\ [][\A t \in Tasks :
            /\ Stage(pc'[t]) >= Stage(pc[t])
            /\ (pc[t] = "idle" /\ pc'[t] # "idle") =>
                  /\ dst' = dst /\ cacheFile' = cacheFile
                  /\ tmp' = tmp /\ cacheTmp' = cacheTmp
                  /\ (QuoteFailed(t))' \/ pc'[t] # "done"
                         \/ resp'[t] = verify_cvm_fallback
            /\ (pc[t] # "idle" /\ pc'[t] # pc[t]) => details[t].quote_verified
            /\ ( \/ download'[t] # download[t] \/ tmp'[t] # tmp[t]
                 \/ cacheTmp'[t] # cacheTmp[t] \/ touched'[t] # touched[t]
                 \/ (lastStore' = t /\ lastStore # t) ) =>
                  details[t].quote_verified]_vars

\* one verification failed at its quote while the other stored its
\* measurements
C22_Witness ==
    \E t \in Tasks, u \in Tasks :
        QuoteFailed(t) /\ lastStore = u /\ download[u] # "none"

\* -------------------------------------------------------------------------
\* verify_os_image_hash: the debug report
\* -------------------------------------------------------------------------
\* the guest events with imr == i, in the order of the log
GuestEventsOf(event_log, i) ==
    LET OfImr(e) == e.imr = i IN SelectSeq(event_log, OfImr)

\* the reports of details.rtmr_debug (none when it is None)
RtmrDebug == IF mm_result.rtmr_debug.some THEN mm_result.rtmr_debug.value ELSE <<>>

\* the report r tags the guest events of RTMR i against the expected log
ReportTags(r, i) ==
    LET G == GuestEventsOf(mm_input.attestation.event_log, i)
        E == mm_input.expected_logs.value[i + 1]
    IN  /\ Len(r.events) = Len(G)
        /\ \A k \in 1..Len(G) :
              /\ r.events[k].actual_digest = Some(G[k].digest)
              /\ mm_input.attestation.event_log[r.events[k].index + 1] = G[k]
              /\ r.events[k].status =
                    IF k > Len(E) THEN "extra"
                    ELSE IF G[k].digest = E[k] THEN "match" ELSE "mismatch"
        /\ r.missing_expected_digests = SubSeq(E, Len(G) + 1, Len(E))

\* RTMR i of the expected measurements differs from the quote's
RtmrDiffers(i) ==
    MrsRtmr(mm_input.expected_mrs, i)
        # MrsRtmr(verified_mrs(mm_input.attestation.report), i)

\* what the claim says of RTMR i
Reported(i) ==
    IF RtmrDiffers(i)
    THEN \E n \in 1..Len(RtmrDebug) :
            /\ RtmrDebug[n].rtmr = RtmrLabel(i)
            /\ ReportTags(RtmrDebug[n], i)
    ELSE \A n \in 1..Len(RtmrDebug) : RtmrDebug[n].rtmr # RtmrLabel(i)

\* the comparison of the measurements is reached: the event log parses,
\* replays, and its RTMR3 is the quote's
ComparisonReached ==
    /\ mm_input.attestation.log_parses
    /\ replay_event_logs(mm_input.attestation.event_log).ok
    /\ replay_event_logs(mm_input.attestation.event_log).rtmrs[3]
          = mm_input.attestation.report.rt_mr3

\* C27 as stated: in debug mode every RTMR0..2 that differs from the quote's
\* has a report in rtmr_debug that tags the guest events match, mismatch or
\* extra and lists the missing expected digests, and an RTMR that agrees has
\* no report
C27_ReportForEveryMismatch ==
    (mm_pc = "returned" /\ mm_input.debug) => \A i \in 0..2 : Reported(i)

\* C27, amended: the same, for a request whose event log parses and replays
\* to the quote's RTMR3
C27_ReportWhenCompared ==
    (mm_pc = "returned" /\ mm_input.debug /\ ComparisonReached)
        => \A i \in 0..2 : Reported(i)

\* a report with a mismatching and an extra event next to a report with a
\* missing expected digest
C27_Witness ==
    /\ mm_pc = "returned"
    /\ mm_input.debug
    /\ ComparisonReached
    /\ \E n, m \in 1..Len(RtmrDebug) :
          /\ \E k, l \in 1..Len(RtmrDebug[n].events) :
                /\ RtmrDebug[n].events[k].status = "mismatch"
                /\ RtmrDebug[n].events[l].status = "extra"
          /\ RtmrDebug[m].missing_expected_digests # <<>>

\* -------------------------------------------------------------------------
\* Tdvf::parse: the scan of the table
\* -------------------------------------------------------------------------
\* C28: parse terminates on every input: an iteration of the scan either
\* stops the scan (break, error) or goes on with a strictly lower offset,
\* whatever length the entry holds
C28_ScanDecreases ==
    [][(tp_pc = "scan" /\ tp_pc' = "scan") => tp_offset' < tp_offset]_vars

\* -------------------------------------------------------------------------
\* Tdvf::compute_mrtd: the reads of the firmware
\* -------------------------------------------------------------------------
\* the chunks compute_mrtd reads of section n: their offsets in the firmware
ChunkOffsets(n) ==
    IF HasAttribute(n.attributes, ATTRIBUTE_MR_EXTEND)
    THEN { n.data_offset + page * PAGE_SIZE + chunk * MR_EXTEND_GRANULARITY :
             page \in 0..(n.memory_data_size \div PAGE_SIZE - 1),
             chunk \in 0..(PAGE_SIZE \div MR_EXTEND_GRANULARITY - 1) }
    ELSE {}

\* C29: on a firmware that parse accepts, compute_mrtd reads only inside the
\* buffer: every chunk of every page of a section with MR_EXTEND ends within
\* the firmware, and the computation does not panic
C29_ReadsInsideFirmware ==
    /\ (tp_pc = "returned" /\ tp_result.kind = "ok") =>
          \A k \in 1..Len(tp_result.sections) :
             \A offset \in ChunkOffsets(SectionNumbers(tp_result.sections[k])) :
                offset + MR_EXTEND_GRANULARITY <= Len(tp_fw)
    /\ tp_pc = "measured" => tp_mrtd.kind = "ok"

\* -------------------------------------------------------------------------
\* Tdvf::compute_mrtd: the order of the events
\* -------------------------------------------------------------------------
\* the MEM.PAGE.ADD and MR.EXTEND events of a result, without the chunks
MrtdEvents(r) ==
    LET IsEvent(u) == u.kind # "fw" IN SelectSeq(r.updates, IsEvent)

\* the section (by its place in the descriptor) and the page a gpa lies in
SectionOfGpa(gpa) == MaxMrtdSections - (gpa \div (MaxPages * PAGE_SIZE))
PageOfGpa(gpa) == (gpa % (MaxPages * PAGE_SIZE)) \div PAGE_SIZE

\* where an event stands: by section, then in TwoPass by kind and address, in
\* SinglePass by page, kind and address
OrderKey(e, variant) ==
    LET rank == IF e.kind = "MEM.PAGE.ADD" THEN 0 ELSE 1
    IN  IF variant = "TwoPass"
        THEN <<SectionOfGpa(e.at), 0, rank, e.at>>
        ELSE <<SectionOfGpa(e.at), PageOfGpa(e.at), rank, e.at>>

LexLess(a, b) ==
    \E i \in 1..Len(a) : a[i] < b[i] /\ \A j \in 1..(i - 1) : a[j] = b[j]

\* the events the sections call for: one MEM.PAGE.ADD per page of a section
\* without PAGE_AUG, one MR.EXTEND per 256-byte chunk of a page of a section
\* with MR_EXTEND
ExpectedEvents(sections) ==
    UNION { { Update("MEM.PAGE.ADD", sections[k].memory_address + p * PAGE_SIZE) :
                p \in { q \in 0..(sections[k].memory_data_size \div PAGE_SIZE - 1) :
                          ~HasAttribute(sections[k].attributes, ATTRIBUTE_PAGE_AUG) } }
            \cup
            { Update("MR.EXTEND", sections[k].memory_address + c * MR_EXTEND_GRANULARITY) :
                c \in { d \in 0..(sections[k].memory_data_size \div MR_EXTEND_GRANULARITY - 1) :
                          HasAttribute(sections[k].attributes, ATTRIBUTE_MR_EXTEND) } }
          : k \in 1..Len(sections) }

\* the events of r are the expected ones, each once, in the order of variant,
\* and each MR.EXTEND comes with the chunk of its address
InOrder(r, sections, variant) ==
    LET events == MrtdEvents(r)
    IN  /\ r.kind = "ok"
        /\ {events[i] : i \in 1..Len(events)} = ExpectedEvents(sections)
        /\ \A i \in 1..(Len(events) - 1) :
              LexLess(OrderKey(events[i], variant), OrderKey(events[i + 1], variant))
        /\ \A i \in 1..Len(r.updates) :
              /\ r.updates[i].kind = "MR.EXTEND" =>
                    /\ i < Len(r.updates)
                    /\ LET sec == sections[SectionOfGpa(r.updates[i].at)]
                       IN  r.updates[i + 1] =
                              Update("fw", sec.data_offset
                                              + (r.updates[i].at - sec.memory_address))
              /\ r.updates[i].kind = "fw" =>
                    i > 1 /\ r.updates[i - 1].kind = "MR.EXTEND"

\* a section whose events are the same sequence in both orders: at most one
\* page, or only one kind of event
OneOrder(sec) ==
    \/ sec.memory_data_size \div PAGE_SIZE <= 1
    \/ HasAttribute(sec.attributes, ATTRIBUTE_PAGE_AUG)
    \/ ~HasAttribute(sec.attributes, ATTRIBUTE_MR_EXTEND)

\* C23: compute_mrtd takes the sections in descriptor order and emits, per
\* page, a MEM.PAGE.ADD only without PAGE_AUG and the 16 (MR.EXTEND, chunk)
\* pairs in ascending address only with MR_EXTEND; TwoPass puts all the adds of
\* a section before all its extends, SinglePass puts each page's extends right
\* behind its add; both orders emit the same events, and the same sequence
\* when every section has one page or one kind of event
C23_EventOrder ==
    mt_pc = "returned" =>
       /\ \A variant \in PageAddOrder :
             InOrder(mt_mrtd[variant], mt_sections, variant)
       /\ Len(mt_mrtd["TwoPass"].updates) = Len(mt_mrtd["SinglePass"].updates)
       /\ (\A k \in 1..Len(mt_sections) : OneOrder(mt_sections[k]))
             => mt_mrtd["TwoPass"] = mt_mrtd["SinglePass"]

\* both orders were computed for a section of two pages with both kinds of
\* event next to a section with PAGE_AUG, and they differ
C23_Witness ==
    /\ mt_pc = "returned"
    /\ mt_mrtd["TwoPass"] # mt_mrtd["SinglePass"]
    /\ \E k, l \in 1..Len(mt_sections) :
          /\ ~OneOrder(mt_sections[k])
          /\ HasAttribute(mt_sections[l].attributes, ATTRIBUTE_PAGE_AUG)
          /\ HasAttribute(mt_sections[l].attributes, ATTRIBUTE_MR_EXTEND)
          /\ mt_sections[l].memory_data_size > 0

\* -------------------------------------------------------------------------
\* MemoryAcceptor
\* -------------------------------------------------------------------------
LeAtMost(a, b) == ~LeLess(b, a)

\* the TD_HOB and TEMP_MEM sections of the input, as [start, end)
AcceptedSections ==
    { [start |-> sec.memory_address,
       end |-> U64Add(sec.memory_address, sec.memory_data_size)] :
        sec \in { hb_input.sections[k] : k \in
                    { l \in 1..Len(hb_input.sections) :
                        hb_input.sections[l].sec_type
                           \in {TDVF_SECTION_TD_HOB, TDVF_SECTION_TEMP_MEM} } } }

\* the byte at address p lies in an accepted range
InAcceptedRange(p) ==
    \E i \in 1..Len(hb_ranges) :
       /\ hb_ranges[i].accepted
       /\ LeAtMost(hb_ranges[i].start, p)
       /\ LeLess(p, hb_ranges[i].end)

\* every byte of [start, end) lies in an accepted range: the first one does,
\* and so does the first one behind every accepted range that ends inside
Covered(sec) ==
    LeLess(sec.start, sec.end) =>
       \A p \in {sec.start}
                  \cup { hb_ranges[i].end : i \in
                           { j \in 1..Len(hb_ranges) :
                               /\ hb_ranges[j].accepted
                               /\ LeLess(sec.start, hb_ranges[j].end)
                               /\ LeLess(hb_ranges[j].end, sec.end) } } :
          InAcceptedRange(p)

RangesSorted ==
    \A i \in 1..(Len(hb_ranges) - 1) :
       LeAtMost(hb_ranges[i].start, hb_ranges[i + 1].start)

RangesDisjoint ==
    \A i, j \in 1..Len(hb_ranges) :
       i < j => LeAtMost(hb_ranges[i].end, hb_ranges[j].start)

\* sorted ranges that follow one another from 0 to memory_size
RangesFillMemory ==
    /\ hb_ranges # <<>>
    /\ hb_ranges[1].start = U64(0)
    /\ \A i \in 1..(Len(hb_ranges) - 1) : hb_ranges[i].end = hb_ranges[i + 1].start
    /\ hb_ranges[Len(hb_ranges)].end = hb_input.memory_size

\* C25: after new(0, memory_size) and one accept per TD_HOB or TEMP_MEM
\* section, whatever the sections the parser accepts, the ranges are sorted by
\* start, pairwise disjoint, their union is [0, memory_size), and every byte
\* of every such section lies in an accepted range
C25_RangesPartitionMemory ==
    hb_pc = "returned" =>
       /\ RangesSorted
       /\ RangesDisjoint
       /\ RangesFillMemory
       /\ \A sec \in AcceptedSections : Covered(sec)

\* -------------------------------------------------------------------------
\* Tdvf::measure_td_hob
\* -------------------------------------------------------------------------
\* a resource descriptor HOB: its type, attribute, start and length
Hob(resource_type, attribute, start, length) ==
    [resource_type |-> resource_type, attribute |-> attribute,
     start |-> start, length |-> length]

\* the resource descriptor HOBs of the blob: the 48-byte records behind the
\* 56 bytes of the header
HobsOf(td_hob) ==
    [j \in 1..((Len(td_hob) - 56) \div 48) |->
        LET b == SubSeq(td_hob, 56 + 48 * (j - 1) + 1, 56 + 48 * j)
        IN  Hob(b[25], SubSeq(b, 29, 32), SubSeq(b, 33, 40), SubSeq(b, 41, 48))]

\* the HOB of a range that is not the last one
RangeHob(range) ==
    Hob(IF range.accepted THEN 0 ELSE 7, Le(7, 4), range.start,
        U64Sub(range.end, range.start))

\* the HOBs the claim gives the last range
LastRangeHobs(range) ==
    IF LeLess(hb_input.memory_size, SplitThreshold)
    THEN <<Hob(7, Le(7, 4), range.start, U64Sub(range.end, range.start))>>
    ELSE <<Hob(7, Le(7, 4), range.start, U64Sub(Below4G, range.start)),
           Hob(7, Le(7, 4), Above4G, U64Sub(range.end, Below4G))>>

\* C26: measure_td_hob emits every range before the last as one HOB of type
\* 0x00 if accepted and 0x07 otherwise, with attribute 7, and the last range
\* [start, end) as one type-0x07 HOB (start, end - start) when memory_size is
\* below 0xB0000000, and otherwise as the two type-0x07 HOBs
\* (start, 0x80000000 - start) and (0x100000000, end - 0x80000000)
C26_LastRangeSplit ==
    (hb_pc = "returned" /\ hb_result.kind = "ok") =>
       HobsOf(hb_result.td_hob)
          = [i \in 1..(Len(hb_ranges) - 1) |-> RangeHob(hb_ranges[i])]
            \o LastRangeHobs(hb_ranges[Len(hb_ranges)])

\* the sum of the lengths of the HOBs from j on
RECURSIVE SumOfLengths(_, _)
SumOfLengths(hobs, j) ==
    IF j > Len(hobs) THEN U64(0)
    ELSE U64Add(hobs[j].length, SumOfLengths(hobs, j + 1))

\* the address of the last TD_HOB section, 0x809000 without one
TdHobBase ==
    LET at == {k \in 1..Len(hb_input.sections) :
                 hb_input.sections[k].sec_type = TDVF_SECTION_TD_HOB}
    IN  IF at = {} THEN DefaultTdHobBase
        ELSE hb_input.sections[CHOOSE k \in at : \A l \in at : l <= k].memory_address

\* every TD_HOB and TEMP_MEM section lies inside [0, memory_size)
SectionsInsideMemory ==
    \A sec \in AcceptedSections :
       LeAtMost(sec.start, sec.end) /\ LeAtMost(sec.end, hb_input.memory_size)

\* C30: for every memory_size and TD_HOB/TEMP_MEM sections inside
\* [0, memory_size), the lengths of the resource descriptor HOBs sum to
\* memory_size, the blob has 56 + 48 * n bytes for its n HOBs, and bytes
\* 48..56 hold td_hob_base_addr + len(blob) + 8
C30_HobsSumToMemory ==
    (hb_pc = "returned" /\ SectionsInsideMemory) =>
       /\ hb_result.kind = "ok"
       /\ SumOfLengths(HobsOf(hb_result.td_hob), 1) = hb_input.memory_size
       /\ (Len(hb_result.td_hob) - 56) % 48 = 0
       /\ \A j \in 1..((Len(hb_result.td_hob) - 56) \div 48) :
             SubSeq(hb_result.td_hob, 56 + 48 * (j - 1) + 1, 56 + 48 * (j - 1) + 4)
                = <<3, 0, 48, 0>>
       /\ SubSeq(hb_result.td_hob, 49, 56)
             = U64Add(U64Add(TdHobBase, U64(Len(hb_result.td_hob))), U64(8))

\* -------------------------------------------------------------------------
\* Tdvf::rtmr0_log
\* -------------------------------------------------------------------------
\* the digest of an EFI variable event: SHA-384 of the GUID in its binary
\* form, the length of the name and 0 as u64, and the name in UTF-16LE
EfiVariableDigest(guid_bytes, name) ==
    Digest("sha384",
           guid_bytes \o <<Len(name), 0, 0, 0, 0, 0, 0, 0>>
              \o <<0, 0, 0, 0, 0, 0, 0, 0>>
              \o [i \in 1..(2 * Len(name)) |->
                    IF i % 2 = 1 THEN name[(i + 1) \div 2] ELSE 0])

\* 8BE4DF61-93CA-11D2-AA0D-00E098032B8C and
\* D719B2CB-3D3A-4596-A3BC-DAD00E67656F in binary form
GlobalGuidBytes ==
    <<97, 223, 228, 139, 202, 147, 210, 17, 170, 13, 0, 224, 152, 3, 43, 140>>
SecurityGuidBytes ==
    <<203, 178, 25, 215, 58, 61, 150, 69, 163, 188, 218, 208, 14, 103, 101, 111>>

\* the thirteen digests of the RTMR0 log of the input
ExpectedRtmr0Log ==
    LET tables == r0_input.machine.build_tables.value
    IN  << Digest("sha384", measure_td_hob(r0_input.sections,
                                           r0_input.machine.memory_size).td_hob),
           cfv_image_hash,
           EfiVariableDigest(GlobalGuidBytes, NameSecureBoot),
           EfiVariableDigest(GlobalGuidBytes, NamePK),
           EfiVariableDigest(GlobalGuidBytes, NameKEK),
           EfiVariableDigest(SecurityGuidBytes, NameDb),
           EfiVariableDigest(SecurityGuidBytes, NameDbx),
           Digest("sha384", <<0, 0, 0, 0>>),
           Digest("sha384", tables.loader),
           Digest("sha384", tables.rsdp),
           Digest("sha384", tables.tables),
           Digest("sha384", <<0, 0>>),
           boot000_hash >>

\* C24: rtmr0_log returns exactly thirteen digests in this order: the td_hob
\* hash, the cfv_image constant, the EFI variables SecureBoot, PK, KEK, db and
\* dbx, the separator SHA384(00 00 00 00), the hashes of the ACPI loader, rsdp
\* and tables, the boot order SHA384(00 00) and the boot000 constant; the
\* rtmr0 of measure_with_logs is the fold of this sequence from the zero
\* register
C24_Rtmr0Log ==
    (r0_pc = "returned" /\ r0_result.kind = "ok") =>
       /\ Len(r0_result.rtmr0_log) = 13
       /\ r0_result.rtmr0_log = ExpectedRtmr0Log
       /\ r0_result.rtmr0 = [extended_from_zero |-> ExpectedRtmr0Log]

\* the log of a machine with a TD_HOB section and three different ACPI blobs
C24_Witness ==
    /\ r0_pc = "returned"
    /\ r0_result.kind = "ok"
    /\ Len(r0_result.rtmr0_log) = 13
    /\ r0_result.rtmr0_log[9] # r0_result.rtmr0_log[11]
    /\ \E k \in 1..Len(r0_input.sections) :
          r0_input.sections[k].sec_type = TDVF_SECTION_TD_HOB

====
